---- MODULE Spec2Model ----
(***************************************************************************)
(* A model of the standalone video API (src/server.js, src/app.js):        *)
(* the provider result walker, the caption injector, the provider          *)
(* metadata cache, the first-success search, the media resolver, the       *)
(* subtitle fetcher and the route handlers.                                *)
(*                                                                         *)
(* Nine specifications share the module:                                   *)
(*   TreeSpec     the walker and the injector applied to a result tree     *)
(*   MetaSpec     concurrent callers of getProviderMetas                   *)
(*   Spec         one first-success search after another                   *)
(*                (findFirstProvider)                                      *)
(*   ResolveSpec  mediaFromMovie and mediaFromTv against TMDB              *)
(*   FetchSpec    fetchOpenSubtitlesCaptions against its upstream          *)
(*   AggSpec      the full-aggregation routes of app.js                    *)
(*   FirstSpec    the first-success routes of server.js, from the request  *)
(*                to its response                                          *)
(*   RoutesSpec   the requests of both programs, one after another         *)
(*   RoutesLiveSpec  RoutesSpec where every awaited call comes back        *)
(***************************************************************************)
EXTENDS Integers, Sequences, FiniteSets, TLC

VARIABLES
    \* --- TreeSpec: walker and injector ---
    phase,      \* which helper has been applied to the tree
    input,      \* the tree as the provider engine produced it
    prev,       \* the tree before the last helper call
    tree,       \* the tree (mutated in place by the injector)
    host,       \* the host argument of injectCaptionsForHost
    captions,   \* the captions argument of the injectors
    ret,        \* the value returned by findFirstPlaylist
    \* --- MetaSpec and Spec: the provider engine and the metadata cache ---
    engineSources,       \* what providers.listSources() returns in this process
    engineEmbeds,        \* what providers.listEmbeds() returns in this process
    SOURCE_METAS_CACHE,
    EMBED_METAS_CACHE,
    mpc,        \* per caller: where its getProviderMetas call stands
    mret,       \* per caller: what its getProviderMetas call returned
    listCalls,  \* per caller: list calls its getProviderMetas call has made
    assignedAfterFill,   \* a cache was assigned while both were non-null
    \* --- Spec: findFirstProvider ---
    pc,                  \* where the search stands
    media,               \* media.type of the request
    embedMetas,          \* the embed listing the search got
    compatibleSources,   \* positions in sourceMetas that passed both filters
    srcIdx,              \* the loop position in compatibleSources
    embeds,              \* out.embeds of the source being tried
    orderedEmbeds,       \* the embeds as sorted
    embIdx,              \* the loop position in orderedEmbeds
    result,              \* what findFirstProvider returned
    sourceLog,           \* the runSourceScraper calls made, in order
    embedLog,            \* the runEmbedScraper calls made for this source
    \* --- ResolveSpec: mediaFromMovie and mediaFromTv ---
    apiKey,              \* process.env.TMDB_API_KEY is set
    rpc,                 \* where the resolver call stands
    season,              \* the season argument of mediaFromTv
    episode,             \* the episode argument of mediaFromTv
    data,                \* the record fetched from /movie/{id}
    tv,                  \* the record fetched from /tv/{id}
    episodeRecord,       \* e, the episode found in the season record
    showExternalIds,
    episodeExternalIds,
    rret,                \* what the resolver call returned or threw
    tmdbCalls,           \* the requests sent to TMDB by this call, in order
    \* --- FetchSpec: fetchOpenSubtitlesCaptions ---
    fpc,                 \* where the fetcher call stands
    fargs,               \* its arguments: imdbId, season, episode
    subtitleRequests,    \* the requests sent to OpenSubtitles by this call
    upstream,            \* what OpenSubtitles did with the request
    fret,                \* what the fetcher call returned or threw
    \* --- AggSpec, FirstSpec and RoutesSpec: the route handlers ---
    apc,                 \* where the full-aggregation handler stands
    descriptor,          \* media, as the resolver returned it
    runAllOut,           \* what providers.runAll returned
    captionCalls,        \* the fetchOpenSubtitlesCaptions calls of the request
    responses,           \* the responses sent for the request, in order
    thrown               \* the error the handler's catch block received

treeVars == <<phase, input, prev, tree, host, captions, ret>>

metaVars == <<engineSources, engineEmbeds, SOURCE_METAS_CACHE, EMBED_METAS_CACHE,
              mpc, mret, listCalls, assignedAfterFill>>

searchVars == <<pc, media, embedMetas, compatibleSources, srcIdx, embeds,
                orderedEmbeds, embIdx, result, sourceLog, embedLog>>

resolveVars == <<apiKey, rpc, season, episode, data, tv, episodeRecord,
                 showExternalIds, episodeExternalIds, rret, tmdbCalls>>

fetchVars == <<fpc, fargs, subtitleRequests, upstream, fret>>

routeVars == <<apc, descriptor, runAllOut, captionCalls, responses, thrown>>

requestVars == <<resolveVars, fetchVars, routeVars>>

vars == <<treeVars, metaVars, searchVars, requestVars>>

----------------------------------------------------------------------------
(* JavaScript values.                                                      *)
(* A string that holds a URL is a sequence of lexical tokens:              *)
(* <<scheme, "://", host, path>>; any other token sequence is a string     *)
(* that is not an absolute URL. The empty string is <<>>.                  *)

\* JS null where a string (token sequence) is expected.
NullString == <<"#null">>
\* JS null where a host is expected.
NullHost == "#null"

Schemes == {"https", "http", "file"}

\* The URL parser lower-cases the host.
LowerHost(h) ==
    CASE h = "CDN1" -> "cdn1"
      [] h = "CDN2" -> "cdn2"
      [] OTHER -> h

\* playlistHost: new URL(playlistUrl).host, null when the URL does not parse.
playlistHost(playlistUrl) ==
    IF Len(playlistUrl) >= 3 /\ playlistUrl[1] \in Schemes /\ playlistUrl[2] = "://"
    THEN LowerHost(playlistUrl[3])
    ELSE NullHost

\* JS truthiness of a host value: null and "" are falsy.
Truthy(h) == h # NullHost /\ h # ""

----------------------------------------------------------------------------
(* The provider result tree: objects, arrays and scalars. An object has an *)
(* own playlist field (undefined, a string, or a non-string), an own       *)
(* captions field (undefined, an array of caption records, or a non-array) *)
(* and, in key order, the array- or object-valued fields it holds (kids).  *)

Obj(pt, p, ct, c, kids) ==
    [kind |-> "object", playlistType |-> pt, playlist |-> p,
     captionsType |-> ct, captions |-> c, kids |-> kids]

Arr(items) ==
    [kind |-> "array", playlistType |-> "undefined", playlist |-> <<>>,
     captionsType |-> "undefined", captions |-> <<>>, kids |-> items]

Scalar ==
    [kind |-> "scalar", playlistType |-> "undefined", playlist |-> <<>>,
     captionsType |-> "undefined", captions |-> <<>>, kids |-> <<>>]

Cap(id, lang) == [id |-> id, language |-> lang]

\* The caption records of the model: two share an id and differ in content.
CaptionRecords == {Cap("u1", "en"), Cap("u1", "fr"), Cap("u2", "en")}

MaxCaptions == 2
MaxKids == 2

SeqsUpTo(S, n) == UNION {[1..k -> S] : k \in 0..n}

\* The own fields of the objects drawn as inputs.
Heads ==
    { Obj("undefined", <<>>, "undefined", <<>>, <<>>),
      Obj("string", <<"https", "://", "cdn1", "/a.m3u8">>, "undefined", <<>>, <<>>),
      Obj("string", <<"https", "://", "CDN1", "/b.m3u8">>, "array",
          <<Cap("u1", "en")>>, <<>>),
      Obj("string", <<"http", "://", "cdn2", "/a.m3u8">>, "array",
          <<Cap("u2", "en")>>, <<>>),
      Obj("string", <<"/relative.m3u8">>, "array", <<Cap("u1", "en")>>, <<>>),
      Obj("string", <<>>, "object", <<>>, <<>>),
      Obj("string", <<"file", "://", "", "/c.m3u8">>, "undefined", <<>>, <<>>),
      Obj("number", <<>>, "undefined", <<>>, <<>>) }

Leaves == Heads \cup {Scalar}

\* Objects and arrays that hold up to MaxKids leaves.
Level1 ==
    {[h EXCEPT !.kids = ks] : h \in Heads \cup {Arr(<<>>)},
                              ks \in SeqsUpTo(Leaves, MaxKids)}

\* A stream object or an array around an object or array that holds one leaf.
Level2 ==
    {[r EXCEPT !.kids = <<[h EXCEPT !.kids = <<l>>]>>] :
        r \in {Arr(<<>>),
               Obj("string", <<"https", "://", "cdn1", "/a.m3u8">>,
                   "undefined", <<>>, <<>>)},
        h \in Heads \cup {Arr(<<>>)},
        l \in Leaves}

Trees == Leaves \cup Level1 \cup Level2

Hosts == {"cdn1", "cdn2"}

----------------------------------------------------------------------------
(* Provider Result Walker                                                  *)

RECURSIVE findFirstPlaylist(_), findFirstInKeys(_, _), findFirstInItems(_, _)

\* for (const item of val) { const res = findFirstPlaylist(item); if (res) return res; }
findFirstInItems(items, i) ==
    IF i > Len(items) THEN NullString
    ELSE LET res == findFirstPlaylist(items[i])
         IN IF res # NullString /\ res # <<>> THEN res
            ELSE findFirstInItems(items, i + 1)

\* for (const key of Object.keys(obj)) { ... }
findFirstInKeys(vals, k) ==
    IF k > Len(vals) THEN NullString
    ELSE LET val == vals[k]
             res == IF val.kind = "array" THEN findFirstInItems(val.kids, 1)
                    ELSE IF val.kind = "object" THEN findFirstPlaylist(val)
                    ELSE NullString
         IN IF res # NullString /\ res # <<>> THEN res
            ELSE findFirstInKeys(vals, k + 1)

\* The fields of obj that Object.keys visits and that hold arrays or objects:
\* the captions array (caption records hold no further objects) and the kids.
ObjectValuedFields(obj) ==
    (IF obj.captionsType = "array"
     THEN <<Arr([i \in 1..Len(obj.captions) |->
                    Obj("undefined", <<>>, "undefined", <<>>, <<>>)])>>
     ELSE <<>>) \o obj.kids

\* Variant: any string playlist counts, the empty one too.
OwnPlaylistFoundAnyString(obj) ==
    obj.playlistType = "string"

OwnPlaylistFound(obj) ==
    obj.playlistType = "string" /\ Len(obj.playlist) > 0

findFirstPlaylist(obj) ==
    IF obj.kind = "scalar" THEN NullString
    ELSE IF OwnPlaylistFound(obj) THEN obj.playlist
    ELSE findFirstInKeys(ObjectValuedFields(obj), 1)

----------------------------------------------------------------------------
(* Caption Injector                                                        *)

\* const existing = Array.isArray(obj.captions) ? obj.captions : [];
existingCaptions(obj) ==
    IF obj.captionsType = "array" THEN obj.captions ELSE <<>>

\* const existingIds = new Set(existing.map((c) => c.id));
existingIds(existing) == {existing[i].id : i \in DOMAIN existing}

\* Variant: no filter, every input caption is appended.
newOnesUnfiltered(existing, caps) == caps

\* const newOnes = captions.filter((c) => !existingIds.has(c.id));
newOnes(existing, caps) ==
    SelectSeq(caps, LAMBDA c : c.id \notin existingIds(existing))

\* Variant: the new captions are put in front of the existing ones.
mergeCaptionsNewFirst(obj, caps) ==
    [obj EXCEPT !.captionsType = "array",
                !.captions = newOnes(existingCaptions(obj), caps)
                             \o existingCaptions(obj)]

\* obj.captions = [...existing, ...newOnes];
mergeCaptions(obj, caps) ==
    [obj EXCEPT !.captionsType = "array",
                !.captions = existingCaptions(obj)
                             \o newOnes(existingCaptions(obj), caps)]

\* Variant: the host of the node is not compared with the host asked for.
hostMatchesAnyHost(obj, h) ==
    /\ obj.playlistType = "string"
    /\ Truthy(playlistHost(obj.playlist))

\* typeof obj.playlist === "string" && hostOfItem && hostOfItem === host
hostMatches(obj, h) ==
    /\ obj.playlistType = "string"
    /\ LET hostOfItem == playlistHost(obj.playlist)
       IN Truthy(hostOfItem) /\ hostOfItem = h

RECURSIVE injectCaptionsForHost(_, _, _)

\* The walk below the own fields: every array item and every object value.
\* (The caption records under the captions key hold no playlist and no
\* objects, so the walk leaves them as they are.)
injectIntoKeys(vals, h, caps) ==
    [k \in DOMAIN vals |->
        IF vals[k].kind = "array"
        THEN [vals[k] EXCEPT !.kids =
                 [i \in DOMAIN vals[k].kids |->
                     injectCaptionsForHost(vals[k].kids[i], h, caps)]]
        ELSE IF vals[k].kind = "object"
        THEN injectCaptionsForHost(vals[k], h, caps)
        ELSE vals[k]]

injectCaptionsForHost(obj, h, caps) ==
    IF obj.kind = "scalar" THEN obj
    ELSE LET own == IF hostMatches(obj, h) THEN mergeCaptions(obj, caps) ELSE obj
         IN [own EXCEPT !.kids = injectIntoKeys(own.kids, h, caps)]

\* Variant: the host of the playlist found is not looked at.
injectCaptionsIntoStreamAnyHost(stream, caps) ==
    IF stream.kind = "scalar" THEN stream
    ELSE LET playlist == findFirstPlaylist(stream)
         IN IF playlist = NullString \/ playlist = <<>> THEN stream
            ELSE mergeCaptions(stream, caps)

\* Single-stream mode: the captions go into the stream record itself.
\* (The routes pass a non-empty array, so "captions || []" is captions.)
injectCaptionsIntoStream(stream, caps) ==
    IF stream.kind = "scalar" THEN stream
    ELSE LET playlist == findFirstPlaylist(stream)
         IN IF playlist = NullString \/ playlist = <<>> THEN stream
            ELSE IF ~Truthy(playlistHost(playlist)) THEN stream
            ELSE mergeCaptions(stream, caps)

----------------------------------------------------------------------------
(* The variables a specification does not use stay at these values.        *)

NullCache == [isNull |-> TRUE, list |-> <<>>]
NoMetas == [sourceMetas |-> <<>>, embedMetas |-> <<>>]
NumCallers == 2
Callers == 1..NumCallers

MetaIdle ==
    /\ engineSources = <<>>
    /\ engineEmbeds = <<>>
    /\ SOURCE_METAS_CACHE = NullCache
    /\ EMBED_METAS_CACHE = NullCache
    /\ mpc = [c \in Callers |-> "idle"]
    /\ mret = [c \in Callers |-> NoMetas]
    /\ listCalls = [c \in Callers |-> 0]
    /\ assignedAfterFill = FALSE

NullResult == [isNull |-> TRUE, sourceId |-> <<>>, embedId |-> "", stream |-> ""]

SearchIdle ==
    /\ pc = "idle"
    /\ media = ""
    /\ embedMetas = <<>>
    /\ compatibleSources = <<>>
    /\ srcIdx = 0
    /\ embeds = <<>>
    /\ orderedEmbeds = <<>>
    /\ embIdx = 0
    /\ result = NullResult
    /\ sourceLog = <<>>
    /\ embedLog = <<>>

TreeIdle ==
    /\ phase = "idle"
    /\ input = Scalar
    /\ prev = Scalar
    /\ tree = Scalar
    /\ host = ""
    /\ captions = <<>>
    /\ ret = NullString

\* A JS number that is undefined (a field the record does not have).
NoNumber == [kind |-> "undefined", n |-> 0]

NoMedia ==
    [type |-> "", title |-> <<>>, releaseYear |-> NoNumber, imdbId |-> <<>>,
     seasonNumber |-> NoNumber, episodeNumber |-> NoNumber]

NoReturn == [status |-> "none", error |-> "", media |-> NoMedia]

NoTvRecord ==
    [name |-> NullString, original_name |-> NullString,
     first_air_date |-> NullString, imdb_id |-> NullString]

NoMovieRecord ==
    [title |-> NullString, original_title |-> NullString,
     release_date |-> NullString, imdb_id |-> NullString]

NoEpisode == [episode_number |-> 0, imdb_id |-> NullString]

\* let showExternalIds = null; let episodeExternalIds = null;
NoExternalIds == [isNull |-> TRUE, imdb_id |-> NullString]

ResolveIdle ==
    /\ apiKey = TRUE
    /\ rpc = "idle"
    /\ season = <<>>
    /\ episode = <<>>
    /\ data = NoMovieRecord
    /\ tv = NoTvRecord
    /\ episodeRecord = NoEpisode
    /\ showExternalIds = NoExternalIds
    /\ episodeExternalIds = NoExternalIds
    /\ rret = NoReturn
    /\ tmdbCalls = <<>>

NoArgs == [imdbId |-> <<>>, season |-> NoNumber, episode |-> NoNumber]

NoUpstream == [kind |-> "none", payload |-> <<>>]

NoCaptions == [status |-> "none", value |-> <<>>]

FetchIdle ==
    /\ fpc = "idle"
    /\ fargs = NoArgs
    /\ subtitleRequests = <<>>
    /\ upstream = NoUpstream
    /\ fret = NoCaptions

\* providers.runAll has not returned.
NoRunOutput == [isNull |-> TRUE, returned |-> FALSE]

\* The catch block has received nothing.
NoError == [isNotFound |-> FALSE, message |-> "#none"]

RouteIdle ==
    /\ apc = "idle"
    /\ descriptor = NoMedia
    /\ runAllOut = NoRunOutput
    /\ captionCalls = <<>>
    /\ responses = <<>>
    /\ thrown = NoError

RequestIdle ==
    /\ ResolveIdle
    /\ FetchIdle
    /\ RouteIdle

----------------------------------------------------------------------------
(* TreeSpec: the helpers applied to a tree the provider engine produced.   *)
(* The routes call the injectors with a non-empty caption sequence and,    *)
(* in tree mode, with a truthy host.                                       *)

CaptionInputs == SeqsUpTo(CaptionRecords, MaxCaptions) \ {<<>>}

TreeInit ==
    /\ phase = "input"
    /\ tree \in Trees
    /\ input = tree
    /\ prev = tree
    /\ host \in Hosts
    /\ captions \in CaptionInputs
    /\ ret = NullString
    /\ MetaIdle
    /\ SearchIdle
    /\ RequestIdle

\* findFirstPlaylist(result)
FindFirst ==
    /\ phase = "input"
    /\ phase' = "found"
    /\ ret' = findFirstPlaylist(tree)
    /\ UNCHANGED <<input, prev, tree, host, captions>>
    /\ UNCHANGED <<metaVars, searchVars, requestVars>>

\* injectCaptionsForHost(result, host, captions)
InjectForHost ==
    /\ phase = "input"
    /\ phase' = "injected"
    /\ prev' = tree
    /\ tree' = injectCaptionsForHost(tree, host, captions)
    /\ UNCHANGED <<input, host, captions, ret>>
    /\ UNCHANGED <<metaVars, searchVars, requestVars>>

\* the same injection applied to the tree a second time
InjectForHostAgain ==
    /\ phase = "injected"
    /\ phase' = "reinjected"
    /\ prev' = tree
    /\ tree' = injectCaptionsForHost(tree, host, captions)
    /\ UNCHANGED <<input, host, captions, ret>>
    /\ UNCHANGED <<metaVars, searchVars, requestVars>>

\* injectCaptionsIntoStream(result.stream, captions)
InjectIntoStream ==
    /\ phase = "input"
    /\ phase' = "stream"
    /\ prev' = tree
    /\ tree' = injectCaptionsIntoStream(tree, captions)
    /\ UNCHANGED <<input, host, captions, ret>>
    /\ UNCHANGED <<metaVars, searchVars, requestVars>>

TreeNext ==
    \/ FindFirst
    \/ InjectForHost
    \/ InjectForHostAgain
    \/ InjectIntoStream

TreeSpec == TreeInit /\ [][TreeNext]_vars

----------------------------------------------------------------------------
(* Properties of the walker and the injector (TreeSpec)                    *)

RECURSIVE Paths(_), NodeAt(_, _), PreorderPlaylists(_), ConcatAll(_), AbsentFrom(_, _)

\* The nodes of a tree, each named by the kid indices that lead to it.
Paths(t) ==
    {<<>>} \cup UNION {{<<i>> \o p : p \in Paths(t.kids[i])} : i \in DOMAIN t.kids}

NodeAt(t, p) == IF p = <<>> THEN t ELSE NodeAt(t.kids[Head(p)], Tail(p))

ConcatAll(ss) == IF ss = <<>> THEN <<>> ELSE Head(ss) \o ConcatAll(Tail(ss))

\* Every non-empty string playlist of the tree, a node before its children,
\* the children in order.
PreorderPlaylists(t) ==
    (IF t.kind = "object" /\ t.playlistType = "string" /\ t.playlist # <<>>
     THEN <<t.playlist>> ELSE <<>>)
    \o ConcatAll([i \in DOMAIN t.kids |-> PreorderPlaylists(t.kids[i])])

\* The captions of a node read as a sequence: empty unless it is an array.
CaptionSeq(n) == IF n.captionsType = "array" THEN n.captions ELSE <<>>

IdsOf(cs) == {cs[i].id : i \in DOMAIN cs}

\* The input captions whose id no existing caption has, in input order.
AbsentFrom(existing, caps) ==
    IF caps = <<>> THEN <<>>
    ELSE (IF \E i \in DOMAIN existing : existing[i].id = Head(caps).id
          THEN <<>> ELSE <<Head(caps)>>)
         \o AbsentFrom(existing, Tail(caps))

DistinctIds(cs) == \A i, j \in DOMAIN cs : cs[i].id = cs[j].id => i = j

\* The node's playlist is a string whose host is the host asked for.
IsTarget(n) == n.playlistType = "string" /\ playlistHost(n.playlist) = host

\* C4: applying injectCaptionsForHost a second time with the same host and
\* captions leaves the captions of every node as the first application made them.
C4_InjectIdempotent ==
    phase = "reinjected" =>
        /\ Paths(tree) = Paths(prev)
        /\ \A p \in Paths(prev) :
              /\ NodeAt(tree, p).captionsType = NodeAt(prev, p).captionsType
              /\ NodeAt(tree, p).captions = NodeAt(prev, p).captions

\* The second application ran on a tree the first one had added captions to.
C4_Witness ==
    /\ phase = "reinjected"
    /\ prev # input
    /\ \E i, j \in DOMAIN captions : i # j /\ captions[i].id = captions[j].id

\* C5: after injectCaptionsForHost a node whose playlist host matches holds its
\* existing captions in their order, followed by the input captions whose id
\* the node did not have, in input order.
C5_DedupLaw ==
    phase = "injected" =>
        \A p \in Paths(prev) :
            IsTarget(NodeAt(prev, p)) =>
                /\ NodeAt(tree, p).captionsType = "array"
                /\ NodeAt(tree, p).captions =
                      CaptionSeq(NodeAt(prev, p))
                      \o AbsentFrom(CaptionSeq(NodeAt(prev, p)), captions)

\* A matching node kept its caption, dropped the input caption with that id
\* and took a new one after it.
C5_Witness ==
    /\ phase = "injected"
    /\ \E p \in Paths(prev) :
          /\ IsTarget(NodeAt(prev, p))
          /\ CaptionSeq(NodeAt(prev, p)) # <<>>
          /\ \E i \in DOMAIN captions :
                /\ captions[i].id \in IdsOf(CaptionSeq(NodeAt(prev, p)))
                /\ captions[i] \notin {CaptionSeq(NodeAt(prev, p))[k] :
                                         k \in DOMAIN CaptionSeq(NodeAt(prev, p))}
          /\ Len(NodeAt(tree, p).captions) > Len(CaptionSeq(NodeAt(prev, p)))

\* C6 (as claimed): after either injector, a node whose captions had pairwise
\* distinct ids holds captions with pairwise distinct ids.
C6_DistinctIdsKept ==
    phase \in {"injected", "stream"} =>
        \A p \in Paths(prev) :
            DistinctIds(CaptionSeq(NodeAt(prev, p)))
                => DistinctIds(CaptionSeq(NodeAt(tree, p)))

\* C7: injectCaptionsForHost changes the captions of every node whose playlist
\* host is the host asked for, at any depth, and nothing else: no other node
\* and no field other than captions.
C7_InjectFrame ==
    phase = "injected" =>
        /\ Paths(tree) = Paths(prev)
        /\ \A p \in Paths(prev) :
              LET b == NodeAt(prev, p)
                  a == NodeAt(tree, p)
              IN /\ a.kind = b.kind
                 /\ a.playlistType = b.playlistType
                 /\ a.playlist = b.playlist
                 /\ Len(a.kids) = Len(b.kids)
                 /\ IsTarget(b) =>
                       /\ a.captionsType = "array"
                       /\ IdsOf(captions) \subseteq IdsOf(a.captions)
                 /\ ~IsTarget(b) =>
                       /\ a.captionsType = b.captionsType
                       /\ a.captions = b.captions

\* A matching node beneath a matching node, both changed, beside a node with
\* another host.
C7_Witness ==
    /\ phase = "injected"
    /\ \E p, q, r \in Paths(prev) :
          /\ Len(q) > Len(p) /\ SubSeq(q, 1, Len(p)) = p
          /\ IsTarget(NodeAt(prev, p)) /\ IsTarget(NodeAt(prev, q))
          /\ NodeAt(tree, p) # NodeAt(prev, p)
          /\ NodeAt(tree, q).captions # NodeAt(prev, q).captions
          /\ NodeAt(prev, r).playlistType = "string"
          /\ Truthy(playlistHost(NodeAt(prev, r).playlist))
          /\ ~IsTarget(NodeAt(prev, r))

\* C8: findFirstPlaylist returns null exactly when the tree holds no non-empty
\* string playlist, and otherwise the first one in pre-order.
C8_FirstInPreorder ==
    phase = "found" =>
        /\ (ret = NullString) <=> (PreorderPlaylists(tree) = <<>>)
        /\ PreorderPlaylists(tree) # <<>> => ret = Head(PreorderPlaylists(tree))

\* The root has no usable playlist of its own and two nodes below it do.
C8_Witness ==
    /\ phase = "found"
    /\ Len(PreorderPlaylists(tree)) >= 2
    /\ PreorderPlaylists(tree)[1] # PreorderPlaylists(tree)[2]
    /\ tree.playlistType = "string"
    /\ tree.playlist = <<>>
    /\ ret = PreorderPlaylists(tree)[1]

\* C9 (as claimed): injectCaptionsIntoStream changes nothing when the walker
\* finds no playlist, and whenever one is found the stream's captions become
\* the existing ones followed by the input captions with a new id.
C9_StreamMergedWheneverPlaylist ==
    phase = "stream" =>
        IF findFirstPlaylist(prev) = NullString
        THEN tree = prev
        ELSE /\ tree.captionsType = "array"
             /\ tree.captions =
                   CaptionSeq(prev) \o AbsentFrom(CaptionSeq(prev), captions)

\* C9 (amended): injectCaptionsIntoStream changes nothing when the walker
\* finds no playlist or the playlist found has no host (it does not parse, or
\* its host is empty); whenever a playlist with a host is found, the stream's
\* captions become the existing ones followed by the input captions with a new
\* id, and nothing else of the stream changes.
C9_StreamMergedWhenHost ==
    phase = "stream" =>
        IF /\ findFirstPlaylist(prev) # NullString
           /\ Truthy(playlistHost(findFirstPlaylist(prev)))
        THEN tree = [prev EXCEPT !.captionsType = "array",
                                 !.captions = CaptionSeq(prev)
                                     \o AbsentFrom(CaptionSeq(prev), captions)]
        ELSE tree = prev

\* The playlist sits in a nested node, the captions went into the stream itself.
C9_Witness ==
    /\ phase = "stream"
    /\ prev.kind = "object"
    /\ prev.playlistType = "undefined"
    /\ findFirstPlaylist(prev) # NullString
    /\ tree # prev
    /\ tree.kids = prev.kids

----------------------------------------------------------------------------
(* The provider engine's listings.                                         *)
(* A source id is a string of characters, so that lower-casing is a        *)
(* conversion of its characters.                                           *)

Id_fsharetv == <<"f", "s", "h", "a", "r", "e", "t", "v">>
Id_FShareTV == <<"F", "S", "h", "a", "r", "e", "T", "V">>
Id_fshare == <<"f", "s", "h", "a", "r", "e">>
Id_vidsrc == <<"v", "i", "d", "s", "r", "c">>
Id_Rips == <<"R", "i", "p", "s">>

\* const ALWAYS_EXCLUDED_SOURCE_IDS = new Set(["fsharetv"]);
ALWAYS_EXCLUDED_SOURCE_IDS == {Id_fsharetv}

\* String.prototype.toLowerCase on the characters the ids are written in.
lowerChar(ch) ==
    CASE ch = "F" -> "f"
      [] ch = "S" -> "s"
      [] ch = "T" -> "t"
      [] ch = "V" -> "v"
      [] ch = "R" -> "r"
      [] OTHER -> ch

toLowerCase(str) == [i \in DOMAIN str |-> lowerChar(str[i])]

SourceMeta(id, isArray, types) ==
    [id |-> id, mediaTypesIsArray |-> isArray, mediaTypes |-> types]

\* The source metas a listing is made of: the denylisted provider in two
\* spellings, two providers for both media types, one for movies only, one
\* whose mediaTypes is no array.
SourceMetas ==
    { SourceMeta(Id_fsharetv, TRUE, {"movie", "show"}),
      SourceMeta(Id_FShareTV, TRUE, {"movie", "show"}),
      SourceMeta(Id_fshare, TRUE, {"movie", "show"}),
      SourceMeta(Id_vidsrc, TRUE, {"movie", "show"}),
      SourceMeta(Id_Rips, TRUE, {"movie"}),
      SourceMeta(Id_vidsrc, FALSE, {}) }

MediaTypes == {"movie", "show"}

MaxSources == 3
MaxEmbeds == 2

\* A listing names a provider id once.
SourceListings ==
    {l \in SeqsUpTo(SourceMetas, MaxSources) :
        \A i, j \in DOMAIN l : i # j => l[i].id # l[j].id}

\* Embed ids: e1 and e2 may be listed, x1 never is.
EmbedIds == {"e1", "e2", "x1"}
EmbedListings == {<<[id |-> "e2"]>>, <<[id |-> "e1"], [id |-> "e2"]>>}

----------------------------------------------------------------------------
(* getProviderMetas: the process-wide cache of the two listings.           *)

Filled(list) == [isNull |-> FALSE, list |-> list]

BothFilled == ~SOURCE_METAS_CACHE.isNull /\ ~EMBED_METAS_CACHE.isNull

\* Variant: the cache is never trusted.
cacheAlwaysMissing == TRUE

\* Variant: the source cache alone is tested.
cacheMissingSourcesOnly == SOURCE_METAS_CACHE.isNull

\* if (!SOURCE_METAS_CACHE || !EMBED_METAS_CACHE)
cacheMissing == SOURCE_METAS_CACHE.isNull \/ EMBED_METAS_CACHE.isNull

\* return { sourceMetas: SOURCE_METAS_CACHE, embedMetas: EMBED_METAS_CACHE };
\* read when the function returns, so it is given the values just assigned.
cachedMetas(src, emb) == [sourceMetas |-> src.list, embedMetas |-> emb.list]

\* The call, up to its first await: the cached listings at once, or the
\* listSources call.
GetProviderMetas(c) ==
    /\ mpc[c] = "idle"
    /\ IF cacheMissing
       THEN /\ mpc' = [mpc EXCEPT ![c] = "awaitSources"]
            /\ listCalls' = [listCalls EXCEPT ![c] = @ + 1]
            /\ UNCHANGED mret
       ELSE /\ mpc' = [mpc EXCEPT ![c] = "returned"]
            /\ mret' = [mret EXCEPT ![c] =
                           cachedMetas(SOURCE_METAS_CACHE, EMBED_METAS_CACHE)]
            /\ UNCHANGED listCalls
    /\ UNCHANGED <<engineSources, engineEmbeds, SOURCE_METAS_CACHE,
                   EMBED_METAS_CACHE, assignedAfterFill>>

\* Variant: refetching the source listing drops the embed listing.
ListSourcesReturnsDroppingEmbeds(c) ==
    /\ mpc[c] = "awaitSources"
    /\ SOURCE_METAS_CACHE' = Filled(engineSources)
    /\ EMBED_METAS_CACHE' = NullCache
    /\ assignedAfterFill' = (assignedAfterFill \/ BothFilled)
    /\ mpc' = [mpc EXCEPT ![c] = "awaitEmbeds"]
    /\ listCalls' = [listCalls EXCEPT ![c] = @ + 1]
    /\ UNCHANGED <<engineSources, engineEmbeds, mret>>

\* SOURCE_METAS_CACHE = await providers.listSources(); then the listEmbeds call.
ListSourcesReturns(c) ==
    /\ mpc[c] = "awaitSources"
    /\ SOURCE_METAS_CACHE' = Filled(engineSources)
    /\ assignedAfterFill' = (assignedAfterFill \/ BothFilled)
    /\ mpc' = [mpc EXCEPT ![c] = "awaitEmbeds"]
    /\ listCalls' = [listCalls EXCEPT ![c] = @ + 1]
    /\ UNCHANGED <<engineSources, engineEmbeds, EMBED_METAS_CACHE, mret>>

\* providers.listSources() throws: the call rejects.
ListSourcesThrows(c) ==
    /\ mpc[c] = "awaitSources"
    /\ mpc' = [mpc EXCEPT ![c] = "threw"]
    /\ UNCHANGED <<engineSources, engineEmbeds, SOURCE_METAS_CACHE,
                   EMBED_METAS_CACHE, mret, listCalls, assignedAfterFill>>

\* EMBED_METAS_CACHE = await providers.listEmbeds(); return {...}
ListEmbedsReturns(c) ==
    /\ mpc[c] = "awaitEmbeds"
    /\ EMBED_METAS_CACHE' = Filled(engineEmbeds)
    /\ assignedAfterFill' = (assignedAfterFill \/ BothFilled)
    /\ mpc' = [mpc EXCEPT ![c] = "returned"]
    /\ mret' = [mret EXCEPT ![c] =
                   cachedMetas(SOURCE_METAS_CACHE, EMBED_METAS_CACHE')]
    /\ UNCHANGED <<engineSources, engineEmbeds, SOURCE_METAS_CACHE, listCalls>>

\* providers.listEmbeds() throws: the call rejects, the source cache stays set.
ListEmbedsThrows(c) ==
    /\ mpc[c] = "awaitEmbeds"
    /\ mpc' = [mpc EXCEPT ![c] = "threw"]
    /\ UNCHANGED <<engineSources, engineEmbeds, SOURCE_METAS_CACHE,
                   EMBED_METAS_CACHE, mret, listCalls, assignedAfterFill>>

\* The caller has its answer; its next request calls again.
MetaCallOver(c) ==
    /\ mpc[c] \in {"returned", "threw"}
    /\ mpc' = [mpc EXCEPT ![c] = "idle"]
    /\ mret' = [mret EXCEPT ![c] = NoMetas]
    /\ listCalls' = [listCalls EXCEPT ![c] = 0]
    /\ UNCHANGED <<engineSources, engineEmbeds, SOURCE_METAS_CACHE,
                   EMBED_METAS_CACHE, assignedAfterFill>>

----------------------------------------------------------------------------
(* MetaSpec: requests that overlap in getProviderMetas.                    *)

MetaInit ==
    /\ engineSources \in SeqsUpTo(SourceMetas, 1)
    /\ engineEmbeds \in EmbedListings
    /\ SOURCE_METAS_CACHE = NullCache
    /\ EMBED_METAS_CACHE = NullCache
    /\ mpc = [c \in Callers |-> "idle"]
    /\ mret = [c \in Callers |-> NoMetas]
    /\ listCalls = [c \in Callers |-> 0]
    /\ assignedAfterFill = FALSE
    /\ TreeIdle
    /\ SearchIdle
    /\ RequestIdle

MetaNext ==
    \/ \E c \in Callers : GetProviderMetas(c) /\ UNCHANGED <<treeVars, searchVars, requestVars>>
    \/ \E c \in Callers : ListSourcesReturns(c) /\ UNCHANGED <<treeVars, searchVars, requestVars>>
    \/ \E c \in Callers : ListSourcesThrows(c) /\ UNCHANGED <<treeVars, searchVars, requestVars>>
    \/ \E c \in Callers : ListEmbedsReturns(c) /\ UNCHANGED <<treeVars, searchVars, requestVars>>
    \/ \E c \in Callers : ListEmbedsThrows(c) /\ UNCHANGED <<treeVars, searchVars, requestVars>>
    \/ \E c \in Callers : MetaCallOver(c) /\ UNCHANGED <<treeVars, searchVars, requestVars>>

MetaSpec == MetaInit /\ [][MetaNext]_vars

\* C10: once both caches are filled, a getProviderMetas call that starts
\* returns the cached listings at once and calls neither listSources nor
\* listEmbeds.
C10_CachedListingsReused ==
    [][\A c \in Callers :
          (BothFilled /\ mpc[c] = "idle" /\ mpc'[c] # "idle") =>
              /\ mpc'[c] = "returned"
              /\ listCalls'[c] = 0
              /\ mret'[c] = [sourceMetas |-> SOURCE_METAS_CACHE.list,
                             embedMetas |-> EMBED_METAS_CACHE.list]
              /\ UNCHANGED <<SOURCE_METAS_CACHE, EMBED_METAS_CACHE>>]_vars

\* A call answered from the cache while an earlier caller is still fetching.
C10_Witness ==
    \E c, d \in Callers :
        /\ c # d
        /\ mpc[c] = "returned"
        /\ listCalls[c] = 0
        /\ mret[c].sourceMetas # <<>>
        /\ mpc[d] = "awaitSources"

\* C11 as stated: once SOURCE_METAS_CACHE and EMBED_METAS_CACHE are both
\* non-null, neither is ever assigned again.
C11_NeverAssignedAgain == ~assignedAfterFill

\* C11 as amended: once both caches are non-null they stay non-null and keep
\* the listings they hold, whoever assigns them again, so every call that
\* returns from then on returns those same listings.
C11_FilledListingsKept ==
    [][BothFilled =>
          /\ BothFilled'
          /\ SOURCE_METAS_CACHE'.list = SOURCE_METAS_CACHE.list
          /\ EMBED_METAS_CACHE'.list = EMBED_METAS_CACHE.list
          /\ \A c \in Callers :
                (mpc[c] # "returned" /\ mpc'[c] = "returned") =>
                    mret'[c] = [sourceMetas |-> SOURCE_METAS_CACHE.list,
                                embedMetas |-> EMBED_METAS_CACHE.list]]_vars

\* A caller that passed the cache test before the fill has assigned a cache
\* after it, and two callers hold the listings they were given.
C11_Witness ==
    /\ assignedAfterFill
    /\ BothFilled
    /\ \A c \in Callers : mpc[c] = "returned"
    /\ \E c, d \in Callers : c # d /\ listCalls[c] = 2 /\ listCalls[d] = 2
    /\ SOURCE_METAS_CACHE.list # <<>>

\* C27: getProviderMetas never returns a null listing. In every
\* interleaving, a call that returns normally returns the two caches as they
\* are at that moment, both non-null; a call that finds either cache null
\* calls listSources and then listEmbeds, so that it has made both calls
\* when it returns, also when an earlier call left the source cache filled
\* and the embed cache null.
C27_NeverNullListing ==
    [][\A c \in Callers :
          /\ (mpc[c] # "returned" /\ mpc'[c] = "returned") =>
                /\ BothFilled'
                /\ mret'[c] = [sourceMetas |-> SOURCE_METAS_CACHE'.list,
                               embedMetas |-> EMBED_METAS_CACHE'.list]
                /\ listCalls'[c] \in {0, 2}
                /\ listCalls'[c] = 0 => BothFilled
          /\ (mpc[c] = "idle" /\ mpc'[c] # "idle" /\ ~BothFilled) =>
                /\ mpc'[c] = "awaitSources"
                /\ listCalls'[c] = 1
          /\ (mpc[c] = "awaitSources" /\ mpc'[c] = "awaitEmbeds") =>
                listCalls'[c] = 2]_vars

\* An earlier call made both list calls and threw at listEmbeds; a later
\* call has fetched both listings and returned them.
C27_Witness ==
    \E c, d \in Callers :
        /\ c # d
        /\ mpc[d] = "threw"
        /\ listCalls[d] = 2
        /\ mpc[c] = "returned"
        /\ listCalls[c] = 2
        /\ mret[c] = [sourceMetas |-> engineSources, embedMetas |-> engineEmbeds]

----------------------------------------------------------------------------
(* findFirstProvider: the first-success search.                            *)

\* (Array.isArray(s.mediaTypes) ? s.mediaTypes : []).includes(media.type)
isCompatible(s, mediaType) ==
    mediaType \in (IF s.mediaTypesIsArray THEN s.mediaTypes ELSE {})

\* Variant: the id is looked up as it is spelled.
isExcludedAsSpelled(s) == s.id \in ALWAYS_EXCLUDED_SOURCE_IDS

\* excluded.has(String(s.id).toLowerCase())
isExcluded(s) == toLowerCase(s.id) \in ALWAYS_EXCLUDED_SOURCE_IDS

RECURSIVE filterPositions(_, _, _)

\* sourceMetas.filter(compatible).filter(not excluded): the sources kept, each
\* named by its position in sourceMetas, in listing order.
filterPositions(sourceMetas, mediaType, i) ==
    IF i > Len(sourceMetas) THEN <<>>
    ELSE (IF isCompatible(sourceMetas[i], mediaType) /\ ~isExcluded(sourceMetas[i])
          THEN <<i>> ELSE <<>>)
         \o filterPositions(sourceMetas, mediaType, i + 1)

RECURSIVE findIndex(_, _, _)

\* embedMetas.findIndex((m) => m.id === embedId): 0-based, -1 when absent.
findIndex(metas, embedId, i) ==
    IF i > Len(metas) THEN -1
    ELSE IF metas[i].id = embedId THEN i - 1
    ELSE findIndex(metas, embedId, i + 1)

\* Variant: embeds the listing does not name are put first.
compareEmbedsUnlistedFirst(a, b, metas) ==
    LET ai == findIndex(metas, a.embedId, 1)
        bi == findIndex(metas, b.embedId, 1)
    IN IF ai >= 0 /\ bi >= 0 THEN ai - bi
       ELSE IF ai >= 0 THEN 1
       ELSE IF bi >= 0 THEN -1
       ELSE a._i - b._i

\* The comparator given to sort.
compareEmbeds(a, b, metas) ==
    LET ai == findIndex(metas, a.embedId, 1)
        bi == findIndex(metas, b.embedId, 1)
    IN IF ai >= 0 /\ bi >= 0 THEN ai - bi
       ELSE IF ai >= 0 THEN -1
       ELSE IF bi >= 0 THEN 1
       ELSE a._i - b._i

RECURSIVE insertSorted(_, _, _), sortFrom(_, _, _, _)

\* Array.prototype.sort is stable: an element goes behind those it does not
\* compare less than.
insertSorted(sorted, x, metas) ==
    IF sorted = <<>> THEN <<x>>
    ELSE IF compareEmbeds(x, Head(sorted), metas) < 0 THEN <<x>> \o sorted
    ELSE <<Head(sorted)>> \o insertSorted(Tail(sorted), x, metas)

sortFrom(sorted, xs, k, metas) ==
    IF k > Len(xs) THEN sorted
    ELSE sortFrom(insertSorted(sorted, xs[k], metas), xs, k + 1, metas)

\* out.embeds.map((e, i) => ({ ...e, _i: i })).sort(...)
orderEmbeds(outEmbeds, metas) ==
    sortFrom(<<>>,
             [i \in DOMAIN outEmbeds |->
                 [embedId |-> outEmbeds[i].embedId, url |-> outEmbeds[i].url,
                  _i |-> i - 1]],
             1, metas)

\* What a scraper call can do: throw, resolve to null, or resolve to an
\* object whose stream and embeds fields are absent or arrays.
Streams == {"s1", "s2"}
StreamFields == {<<>>, <<"s1">>, <<"s2", "s1">>}

\* The i-th embed a source returns carries URL number i.
EmbedLists ==
    UNION {{[i \in 1..n |-> [embedId |-> ids[i], url |-> i]] : ids \in [1..n -> EmbedIds]}
           : n \in 0..MaxEmbeds}

Outcome(kind, hasStream, stream, hasEmbeds, embs) ==
    [kind |-> kind, hasStream |-> hasStream, stream |-> stream,
     hasEmbeds |-> hasEmbeds, embeds |-> embs]

SourceOutcomes ==
    {Outcome("throw", FALSE, <<>>, FALSE, <<>>),
     Outcome("null", FALSE, <<>>, FALSE, <<>>)}
    \cup {Outcome("object", hs, IF hs THEN st ELSE <<>>, he, IF he THEN em ELSE <<>>) :
             hs \in BOOLEAN, st \in StreamFields, he \in BOOLEAN, em \in EmbedLists}

EmbedOutcomes ==
    {Outcome("throw", FALSE, <<>>, FALSE, <<>>),
     Outcome("null", FALSE, <<>>, FALSE, <<>>)}
    \cup {Outcome("object", hs, IF hs THEN st ELSE <<>>, FALSE, <<>>) :
             hs \in BOOLEAN, st \in StreamFields}

\* What the scraper did, whatever the search makes of it: it resolved to an
\* object that carries at least one stream.
GivesStream(out) == out.kind = "object" /\ out.hasStream /\ out.stream # <<>>

\* out.stream && out.stream.length > 0 (reading a field of null throws)
hasStream(out) == out.kind = "object" /\ out.hasStream /\ Len(out.stream) > 0

\* out.embeds && out.embeds.length > 0
hasEmbeds(out) == out.kind = "object" /\ out.hasEmbeds /\ Len(out.embeds) > 0

Found(sourceId, embedId, stream) ==
    [isNull |-> FALSE, sourceId |-> sourceId, embedId |-> embedId, stream |-> stream]

\* The id of the source the loop is at.
CurrentSource == engineSources[compatibleSources[srcIdx]]

\* findFirstProvider(media) begins: it calls getProviderMetas.
StartSearch ==
    /\ pc = "idle"
    /\ media' \in MediaTypes
    /\ pc' = "metas"
    /\ GetProviderMetas(1)
    /\ UNCHANGED <<embedMetas, compatibleSources, srcIdx, embeds, orderedEmbeds,
                   embIdx, result, sourceLog, embedLog>>
    /\ UNCHANGED <<treeVars, requestVars>>

\* The listing calls of the search's getProviderMetas call.
SearchListSourcesReturns ==
    pc = "metas" /\ ListSourcesReturns(1) /\ UNCHANGED <<searchVars, treeVars, requestVars>>

SearchListSourcesThrows ==
    pc = "metas" /\ ListSourcesThrows(1) /\ UNCHANGED <<searchVars, treeVars, requestVars>>

SearchListEmbedsReturns ==
    pc = "metas" /\ ListEmbedsReturns(1) /\ UNCHANGED <<searchVars, treeVars, requestVars>>

SearchListEmbedsThrows ==
    pc = "metas" /\ ListEmbedsThrows(1) /\ UNCHANGED <<searchVars, treeVars, requestVars>>

\* getProviderMetas rejected: so does findFirstProvider.
MetasFailed ==
    /\ pc = "metas"
    /\ mpc[1] = "threw"
    /\ pc' = "failed"
    /\ MetaCallOver(1)
    /\ UNCHANGED <<media, embedMetas, compatibleSources, srcIdx, embeds,
                   orderedEmbeds, embIdx, result, sourceLog, embedLog>>
    /\ UNCHANGED <<treeVars, requestVars>>

\* The listings are there: filter the sources and enter the loop, which
\* returns null at once when no source is left.
FilterSources ==
    /\ pc = "metas"
    /\ mpc[1] = "returned"
    /\ LET kept == filterPositions(mret[1].sourceMetas, media, 1)
       IN /\ compatibleSources' = kept
          /\ embedMetas' = mret[1].embedMetas
          /\ IF kept = <<>>
             THEN pc' = "done" /\ srcIdx' = 0
             ELSE pc' = "sources" /\ srcIdx' = 1
    /\ result' = NullResult
    /\ MetaCallOver(1)
    /\ UNCHANGED <<media, embeds, orderedEmbeds, embIdx, sourceLog, embedLog>>
    /\ UNCHANGED <<treeVars, requestVars>>

\* Variant: a source that fails ends the search.
NextSourceGivesUp ==
    /\ pc' = "done"
    /\ srcIdx' = srcIdx
    /\ result' = NullResult
    /\ embeds' = <<>>
    /\ orderedEmbeds' = <<>>
    /\ embIdx' = 0
    /\ embedLog' = <<>>

\* Variant: a source that fails is tried again.
NextSourceTriesAgain ==
    /\ pc' = "sources"
    /\ srcIdx' = srcIdx
    /\ result' = NullResult
    /\ embeds' = <<>>
    /\ orderedEmbeds' = <<>>
    /\ embIdx' = 0
    /\ embedLog' = <<>>

\* The source loop goes on to the next source, or ends: return null.
NextSource ==
    /\ IF srcIdx < Len(compatibleSources)
       THEN pc' = "sources" /\ srcIdx' = srcIdx + 1
       ELSE pc' = "done" /\ srcIdx' = srcIdx
    /\ result' = NullResult
    /\ embeds' = <<>>
    /\ orderedEmbeds' = <<>>
    /\ embIdx' = 0
    /\ embedLog' = <<>>

\* Variant: what runSourceScraper throws leaves findFirstProvider.
RunSourceScraperUncaught ==
    /\ pc = "sources"
    /\ \E out \in SourceOutcomes :
          /\ sourceLog' = Append(sourceLog,
                                 [pos |-> compatibleSources[srcIdx],
                                  id |-> CurrentSource.id,
                                  threw |-> (out.kind = "throw"),
                                  yielded |-> GivesStream(out)])
          /\ IF out.kind = "throw"
             THEN /\ pc' = "failed"
                  /\ UNCHANGED <<srcIdx, embeds, orderedEmbeds, embIdx, embedLog, result>>
             ELSE IF out.kind = "null"
             THEN NextSource
             ELSE IF hasStream(out)
             THEN /\ result' = Found(CurrentSource.id, "", out.stream[1])
                  /\ pc' = "done"
                  /\ UNCHANGED <<srcIdx, embeds, orderedEmbeds, embIdx, embedLog>>
             ELSE IF hasEmbeds(out)
             THEN /\ embeds' = out.embeds
                  /\ orderedEmbeds' = orderEmbeds(out.embeds, embedMetas)
                  /\ embIdx' = 1
                  /\ embedLog' = <<>>
                  /\ pc' = "embeds"
                  /\ UNCHANGED <<srcIdx, result>>
             ELSE NextSource
    /\ UNCHANGED <<media, embedMetas, compatibleSources>>
    /\ UNCHANGED <<metaVars, treeVars, requestVars>>

\* One turn of the source loop: runSourceScraper({ id: src.id, media }).
RunSourceScraper ==
    /\ pc = "sources"
    /\ \E out \in SourceOutcomes :
          /\ sourceLog' = Append(sourceLog,
                                 [pos |-> compatibleSources[srcIdx],
                                  id |-> CurrentSource.id,
                                  threw |-> (out.kind = "throw"),
                                  yielded |-> GivesStream(out)])
          /\ IF out.kind \in {"throw", "null"}
             THEN NextSource
             ELSE IF hasStream(out)
             THEN /\ result' = Found(CurrentSource.id, "", out.stream[1])
                  /\ pc' = "done"
                  /\ UNCHANGED <<srcIdx, embeds, orderedEmbeds, embIdx, embedLog>>
             ELSE IF hasEmbeds(out)
             THEN /\ embeds' = out.embeds
                  /\ orderedEmbeds' = orderEmbeds(out.embeds, embedMetas)
                  /\ embIdx' = 1
                  /\ embedLog' = <<>>
                  /\ pc' = "embeds"
                  /\ UNCHANGED <<srcIdx, result>>
             ELSE NextSource
    /\ UNCHANGED <<media, embedMetas, compatibleSources>>
    /\ UNCHANGED <<metaVars, treeVars, requestVars>>

\* One turn of the embed loop: runEmbedScraper({ id: emb.embedId, url: emb.url }).
RunEmbedScraper ==
    /\ pc = "embeds"
    /\ \E eout \in EmbedOutcomes :
          LET emb == orderedEmbeds[embIdx]
              called == Append(embedLog, [id |-> emb.embedId, url |-> emb.url,
                                          yielded |-> GivesStream(eout)])
          IN IF eout.kind \notin {"throw", "null"} /\ hasStream(eout)
             THEN /\ result' = Found(CurrentSource.id, emb.embedId, eout.stream[1])
                  /\ pc' = "done"
                  /\ embedLog' = called
                  /\ sourceLog' = [sourceLog EXCEPT ![Len(sourceLog)].yielded = TRUE]
                  /\ UNCHANGED <<srcIdx, embeds, orderedEmbeds, embIdx>>
             ELSE IF embIdx < Len(orderedEmbeds)
             THEN /\ embIdx' = embIdx + 1
                  /\ embedLog' = called
                  /\ UNCHANGED <<pc, srcIdx, embeds, orderedEmbeds, result, sourceLog>>
             ELSE NextSource /\ UNCHANGED sourceLog
    /\ UNCHANGED <<media, embedMetas, compatibleSources>>
    /\ UNCHANGED <<metaVars, treeVars, requestVars>>

\* The request is over; the process takes the next one. The caches stay.
NextRequest ==
    /\ pc \in {"done", "failed"}
    /\ pc' = "idle"
    /\ media' = ""
    /\ embedMetas' = <<>>
    /\ compatibleSources' = <<>>
    /\ srcIdx' = 0
    /\ embeds' = <<>>
    /\ orderedEmbeds' = <<>>
    /\ embIdx' = 0
    /\ result' = NullResult
    /\ sourceLog' = <<>>
    /\ embedLog' = <<>>
    /\ UNCHANGED <<metaVars, treeVars, requestVars>>

Init ==
    /\ engineSources \in SourceListings
    /\ engineEmbeds \in EmbedListings
    /\ SOURCE_METAS_CACHE = NullCache
    /\ EMBED_METAS_CACHE = NullCache
    /\ mpc = [c \in Callers |-> "idle"]
    /\ mret = [c \in Callers |-> NoMetas]
    /\ listCalls = [c \in Callers |-> 0]
    /\ assignedAfterFill = FALSE
    /\ SearchIdle
    /\ TreeIdle
    /\ RequestIdle

----------------------------------------------------------------------------
Next ==
    \/ StartSearch
    \/ SearchListSourcesReturns
    \/ SearchListSourcesThrows
    \/ SearchListEmbedsReturns
    \/ SearchListEmbedsThrows
    \/ MetasFailed
    \/ FilterSources
    \/ RunSourceScraper
    \/ RunEmbedScraper
    \/ NextRequest

Spec == Init /\ [][Next]_vars

----------------------------------------------------------------------------
(* Properties of the first-success search (Spec)                           *)

SameIgnoringCase(a, b) ==
    Len(a) = Len(b) /\ \A i \in DOMAIN a : lowerChar(a[i]) = lowerChar(b[i])

Denylisted(id) == \E x \in ALWAYS_EXCLUDED_SOURCE_IDS : SameIgnoringCase(id, x)

Searching == pc \in {"sources", "embeds", "done"}

\* The positions of the listing that hold a source for this media type that
\* is not on the denylist, in listing order.
Eligible ==
    SelectSeq([i \in DOMAIN engineSources |-> i],
              LAMBDA i : /\ engineSources[i].mediaTypesIsArray
                         /\ media \in engineSources[i].mediaTypes
                         /\ ~Denylisted(engineSources[i].id))

CalledPositions == [k \in DOMAIN sourceLog |-> sourceLog[k].pos]

\* C1: the sources are tried in listing order, the compatible ones that are
\* not excluded and no other; a source that fails is passed over; the search
\* ends with the first one that gives a stream, which the result names, and
\* tries no source after it.
C1_FirstSuccess ==
    Searching =>
        /\ Len(CalledPositions) <= Len(Eligible)
        /\ CalledPositions = SubSeq(Eligible, 1, Len(CalledPositions))
        /\ \A k \in DOMAIN sourceLog :
              /\ sourceLog[k].id = engineSources[sourceLog[k].pos].id
              /\ k < Len(sourceLog) => ~sourceLog[k].yielded
        /\ (sourceLog # <<>> /\ sourceLog[Len(sourceLog)].yielded) =>
              /\ pc = "done"
              /\ ~result.isNull
              /\ result.sourceId = sourceLog[Len(sourceLog)].id
        /\ (pc = "done" /\ ~result.isNull) =>
              sourceLog # <<>> /\ sourceLog[Len(sourceLog)].yielded
        /\ (pc = "done" /\ result.isNull) => CalledPositions = Eligible

\* The first source threw, the second returned neither stream nor embeds, the
\* third gave the stream.
C1_Witness ==
    /\ pc = "done"
    /\ ~result.isNull
    /\ Len(sourceLog) = 3
    /\ sourceLog[1].threw
    /\ ~sourceLog[2].threw /\ ~sourceLog[2].yielded
    /\ result.sourceId = engineSources[3].id
    /\ result.sourceId # engineSources[1].id

\* C2: no source whose id is fsharetv, in whatever case, is passed to
\* runSourceScraper.
C2_ExcludedNeverRun ==
    \A k \in DOMAIN sourceLog : ~Denylisted(sourceLog[k].id)

\* The listing holds the excluded provider under another spelling, for this
\* media type; every other source failed and the search returned null.
C2_Witness ==
    /\ pc = "done"
    /\ result.isNull
    /\ sourceLog # <<>>
    /\ \E i \in DOMAIN engineSources :
          /\ engineSources[i].id = Id_FShareTV
          /\ media \in engineSources[i].mediaTypes

InEmbedLoop == pc \in {"embeds", "done"} /\ embeds # <<>>

\* Where the listing names the embed's type: its position, or behind them all.
EmbedRank(e) ==
    IF \E m \in DOMAIN embedMetas : embedMetas[m].id = e.embedId
    THEN CHOOSE m \in DOMAIN embedMetas :
            /\ embedMetas[m].id = e.embedId
            /\ \A n \in 1..(m - 1) : embedMetas[n].id # e.embedId
    ELSE Len(embedMetas) + 1

\* Embed i goes before embed j: listed before unlisted, listed ones by their
\* place in the listing, otherwise the order the source gave them in.
GoesBefore(i, j) ==
    \/ EmbedRank(embeds[i]) < EmbedRank(embeds[j])
    \/ /\ EmbedRank(embeds[i]) = EmbedRank(embeds[j])
       /\ i < j

\* The order of the embeds (as positions in out.embeds) the claim describes.
ExpectedEmbedOrder ==
    CHOOSE perm \in [DOMAIN embeds -> DOMAIN embeds] :
        /\ \A a, b \in DOMAIN embeds : a # b => perm[a] # perm[b]
        /\ \A a, b \in DOMAIN embeds : a < b => GoesBefore(perm[a], perm[b])

\* C3: the embeds of a source are run in the order: listed ones by their place
\* in the embed listing, then the unlisted ones, ties in the order given; the
\* first that gives a stream is returned with its source and embed id, and no
\* embed is run after it.
C3_EmbedOrder ==
    InEmbedLoop =>
        /\ Len(orderedEmbeds) = Len(embeds)
        /\ Len(embedLog) <= Len(embeds)
        /\ \A k \in DOMAIN embedLog :
              /\ embedLog[k].id = embeds[ExpectedEmbedOrder[k]].embedId
              /\ embedLog[k].url = embeds[ExpectedEmbedOrder[k]].url
              /\ k < Len(embedLog) => ~embedLog[k].yielded
        /\ (embedLog # <<>> /\ embedLog[Len(embedLog)].yielded) =>
              /\ pc = "done"
              /\ result = [isNull |-> FALSE,
                           sourceId |-> sourceLog[Len(sourceLog)].id,
                           embedId |-> embedLog[Len(embedLog)].id,
                           stream |-> result.stream]
        /\ pc = "done" =>
              /\ ~result.isNull
              /\ embedLog # <<>> /\ embedLog[Len(embedLog)].yielded

\* The source gave an unlisted embed and then a listed one; the listed one
\* was run first and failed, the unlisted one gave the stream.
C3_Witness ==
    /\ pc = "done"
    /\ ~result.isNull
    /\ Len(embeds) = 2
    /\ embeds[1].embedId = "x1"
    /\ Len(embedLog) = 2
    /\ embedLog[1].url = 2
    /\ ~embedLog[1].yielded
    /\ result.embedId = "x1"

\* C25: no retries. Within one search runSourceScraper is called at most
\* once per compatible source and runEmbedScraper at most once per embed
\* entry the current source returned; a candidate that threw or returned
\* nothing is not called again, and the candidate to be called next is the
\* one after all those called.
C25_NoRetries ==
    /\ \A j, k \in DOMAIN sourceLog : j < k => sourceLog[j].pos < sourceLog[k].pos
    /\ \A j, k \in DOMAIN embedLog : j < k => embedLog[j].url # embedLog[k].url
    /\ \A k \in DOMAIN embedLog :
          \E i \in DOMAIN embeds :
              embeds[i] = [embedId |-> embedLog[k].id, url |-> embedLog[k].url]
    /\ Len(embedLog) <= Len(embeds)
    /\ pc = "sources" =>
          /\ srcIdx = Len(sourceLog) + 1
          /\ \A k \in DOMAIN sourceLog : sourceLog[k].pos # compatibleSources[srcIdx]
    /\ pc = "embeds" =>
          /\ srcIdx = Len(sourceLog)
          /\ embIdx = Len(embedLog) + 1
          /\ \A k \in DOMAIN embedLog : embedLog[k].url # orderedEmbeds[embIdx].url

\* A source threw, the next one gave no stream, and the search is at a third
\* source with no call repeated.
C25_Witness ==
    /\ pc = "sources"
    /\ srcIdx = 3
    /\ Len(sourceLog) = 2
    /\ sourceLog[1].threw
    /\ ~sourceLog[2].threw /\ ~sourceLog[2].yielded
    /\ sourceLog[1].pos # sourceLog[2].pos

----------------------------------------------------------------------------
(* The media resolver: tmdbGet, mediaFromMovie, mediaFromTv.               *)
(* The strings the resolver parses are sequences of characters. A field    *)
(* that is null or missing in a TMDB record is NullString.                 *)

\* JS undefined where a string is expected.
Undefined == <<"#undefined">>

\* JS truthiness of a string-valued field.
TruthyString(s) == s # NullString /\ s # Undefined /\ s # <<>>

\* a || b on string-valued fields.
OrElse(a, b) == IF TruthyString(a) THEN a ELSE b

\* JS numbers: an integer, NaN or an infinity.
Num(n) == [kind |-> "num", n |-> n]
NaN == [kind |-> "nan", n |-> 0]
Infinity == [kind |-> "inf", n |-> 1]

\* The decimal digits and their values.
DigitValue ==
    [c \in {"0", "1", "2", "3", "4", "5", "6", "7", "8", "9"} |->
        CASE c = "0" -> 0 [] c = "1" -> 1 [] c = "2" -> 2 [] c = "3" -> 3
          [] c = "4" -> 4 [] c = "5" -> 5 [] c = "6" -> 6 [] c = "7" -> 7
          [] c = "8" -> 8 [] c = "9" -> 9]

\* The longest prefix of s made of digits.
RECURSIVE LeadingDigits(_)
LeadingDigits(s) ==
    IF s = <<>> \/ Head(s) \notin DOMAIN DigitValue THEN <<>>
    ELSE <<Head(s)>> \o LeadingDigits(Tail(s))

\* The value of a digit string, most significant digit first.
RECURSIVE DecimalValue(_)
DecimalValue(ds) ==
    IF ds = <<>> THEN 0
    ELSE 10 * DecimalValue(SubSeq(ds, 1, Len(ds) - 1)) + DigitValue[ds[Len(ds)]]

\* parseInt(s, 10): one sign is skipped, the digits that follow are read up
\* to the first other character; NaN when there is none. (The strings of
\* the model hold no blanks.)
parseInt(s) ==
    LET signed == s # <<>> /\ Head(s) \in {"-", "+"}
        ds == LeadingDigits(IF signed THEN Tail(s) ELSE s)
    IN  IF ds = <<>> THEN NaN
        ELSE IF signed /\ Head(s) = "-" THEN Num(0 - DecimalValue(ds))
        ELSE Num(DecimalValue(ds))

InfinityLiteral == <<"I", "n", "f", "i", "n", "i", "t", "y">>

\* Number(s) for a string: the empty string is 0, a signed run of digits is
\* its value, Infinity is infinite and any other text is NaN. (The
\* parameters of the model hold no blank, fraction, exponent or radix
\* prefix.)
Number(s) ==
    LET signed == s # <<>> /\ Head(s) \in {"-", "+"}
        u == IF signed THEN Tail(s) ELSE s
    IN  IF s = <<>> THEN Num(0)
        ELSE IF u = InfinityLiteral THEN Infinity
        ELSE IF u # <<>> /\ LeadingDigits(u) = u
             THEN IF signed /\ Head(s) = "-" THEN Num(0 - DecimalValue(u))
                  ELSE Num(DecimalValue(u))
        ELSE NaN

\* parseInt((date || "").slice(0, 4) || "0", 10)
yearOf(date) ==
    LET text == OrElse(date, <<>>)
        firstFour == SubSeq(text, 1, IF Len(text) < 4 THEN Len(text) ELSE 4)
    IN  parseInt(OrElse(firstFour, <<"0">>))

\* The records TMDB answers with.
\* release_date and first_air_date: missing, empty, "1999-03-31",
\* "0000-01-01", "n/a", "-500-01-01" and "20".
Dates ==
    {NullString, <<>>,
     <<"1", "9", "9", "9", "-", "0", "3", "-", "3", "1">>,
     <<"0", "0", "0", "0", "-", "0", "1", "-", "0", "1">>,
     <<"n", "/", "a">>,
     <<"-", "5", "0", "0", "-", "0", "1", "-", "0", "1">>,
     <<"2", "0">>}

Id_episodeExternal == <<"t", "t", "1">>
Id_showExternal == <<"t", "t", "2">>
Id_episodeEmbedded == <<"t", "t", "3">>
Id_showEmbedded == <<"t", "t", "4">>

MovieRecords ==
    [title : {NullString, <<>>, <<"T">>},
     original_title : {NullString, <<"O">>},
     release_date : Dates,
     imdb_id : {NullString, <<>>, Id_showEmbedded}]

TvRecords ==
    [name : {NullString, <<>>, <<"T">>},
     original_name : {NullString, <<"O">>},
     first_air_date : Dates,
     imdb_id : {NullString, Id_showEmbedded}]

EpisodeRecords ==
    [episode_number : {1, 2}, imdb_id : {NullString, Id_episodeEmbedded}]

\* s.episodes is undefined, or a list of episode records.
MaxEpisodes == 2
SeasonRecords ==
    {[hasEpisodes |-> FALSE, episodes |-> <<>>]} \cup
    {[hasEpisodes |-> TRUE, episodes |-> l] : l \in SeqsUpTo(EpisodeRecords, MaxEpisodes)}

ShowExternalIdsRecords ==
    {[isNull |-> FALSE, imdb_id |-> i] : i \in {NullString, <<>>, Id_showExternal}}

EpisodeExternalIdsRecords ==
    {[isNull |-> FALSE, imdb_id |-> i] : i \in {NullString, <<>>, Id_episodeExternal}}

\* The :season and :episode parameters of the routes.
Params == {<<"1">>, <<"2">>, <<"0">>, <<"-", "1">>, <<"a">>, InfinityLiteral}

\* What tmdbGet throws when the request fails or the status is not ok.
TmdbFailures == {"fetch failed", "TMDB error 404"}

Threw(msg) == [status |-> "threw", error |-> msg, media |-> NoMedia]
Returned(m) == [status |-> "returned", error |-> "", media |-> m]

\* const title = data.title || data.original_title || "";
titleOf(first, second) == OrElse(first, OrElse(second, <<>>))

\* if (!title || !releaseYear) throw ...
\* (0 and NaN are the falsy numbers.)
incomplete(title, releaseYear) ==
    ~TruthyString(title) \/ releaseYear = NaN \/ releaseYear = Num(0)

\* Variant: only a value that is not finite is refused.
invalidNumberOnlyNotFinite(n) == n.kind # "num"

\* if (!Number.isFinite(n) || n <= 0) throw ...
invalidNumber(n) == n.kind # "num" \/ n.n <= 0

\* s.episodes?.find((x) => x.episode_number === episodeNumber): the position
\* of the first match, 0 when there is none or s.episodes is undefined.
findEpisode(s, episodeNumber) ==
    LET hits == {i \in DOMAIN s.episodes :
                    Num(s.episodes[i].episode_number) = episodeNumber}
    IN  IF ~s.hasEpisodes \/ hits = {} THEN 0
        ELSE CHOOSE i \in hits : \A j \in hits : i <= j

\* x && x.imdb_id
idOf(x) == IF x.isNull THEN NullString ELSE x.imdb_id

\* Variant: the show-level external id is preferred.
pickImdbIdShowFirst(epExt, showExt, e, show) ==
    OrElse(idOf(showExt), OrElse(idOf(epExt),
        OrElse(e.imdb_id, OrElse(show.imdb_id, Undefined))))

\* (episodeExternalIds && episodeExternalIds.imdb_id) ||
\* (showExternalIds && showExternalIds.imdb_id) || e.imdb_id || tv.imdb_id ||
\* undefined
pickImdbId(epExt, showExt, e, show) ==
    OrElse(idOf(epExt), OrElse(idOf(showExt),
        OrElse(e.imdb_id, OrElse(show.imdb_id, Undefined))))

movieMedia(d) ==
    [type |-> "movie",
     title |-> titleOf(d.title, d.original_title),
     releaseYear |-> yearOf(d.release_date),
     imdbId |-> OrElse(d.imdb_id, Undefined),
     seasonNumber |-> NoNumber,
     episodeNumber |-> NoNumber]

showMedia(show, e, showExt, epExt, seasonNumber, episodeNumber) ==
    [type |-> "show",
     title |-> titleOf(show.name, show.original_name),
     releaseYear |-> yearOf(show.first_air_date),
     imdbId |-> pickImdbId(epExt, showExt, e, show),
     seasonNumber |-> seasonNumber,
     episodeNumber |-> episodeNumber]

\* The request tmdbGet sends, and how it ended.
Call(path) == [path |-> path, outcome |-> "pending"]

\* The last request of the log has its outcome.
Settle(calls, outcome) ==
    [calls EXCEPT ![Len(calls)] = [@ EXCEPT !.outcome = outcome]]

\* The resolver call is over with this outcome.
Finish(r) ==
    /\ rpc' = "done"
    /\ rret' = r

\* tmdbGet(path), up to its await: without an API key it throws and sends
\* nothing.
TmdbGetFirst(path, at) ==
    IF apiKey
    THEN /\ rpc' = at
         /\ tmdbCalls' = <<Call(path)>>
         /\ UNCHANGED rret
    ELSE /\ Finish(Threw("Missing TMDB_API_KEY"))
         /\ UNCHANGED tmdbCalls

\* mediaFromMovie(id): const data = await tmdbGet(`/movie/${id}`)
StartMovie ==
    /\ rpc = "idle"
    /\ TmdbGetFirst("/movie/id", "movie")
    /\ UNCHANGED <<apiKey, season, episode, data, tv, episodeRecord,
                   showExternalIds, episodeExternalIds>>

\* The movie record arrives: the rest of mediaFromMovie.
MovieFetched ==
    /\ rpc = "movie"
    /\ data' \in MovieRecords
    /\ Finish(IF incomplete(titleOf(data'.title, data'.original_title),
                            yearOf(data'.release_date))
              THEN Threw("TMDB movie metadata incomplete")
              ELSE Returned(movieMedia(data')))
    /\ tmdbCalls' = Settle(tmdbCalls, "ok")
    /\ UNCHANGED <<apiKey, season, episode, tv, episodeRecord,
                   showExternalIds, episodeExternalIds>>

\* tmdbGet throws: mediaFromMovie rejects with its error.
MovieFetchFails ==
    /\ rpc = "movie"
    /\ \E f \in TmdbFailures : Finish(Threw(f))
    /\ tmdbCalls' = Settle(tmdbCalls, "failed")
    /\ UNCHANGED <<apiKey, season, episode, data, tv, episodeRecord,
                   showExternalIds, episodeExternalIds>>

\* mediaFromTv(id, season, episode): const tv = await tmdbGet(`/tv/${id}`)
StartShow ==
    /\ rpc = "idle"
    /\ \E se \in Params, ep \in Params :
          /\ season' = se
          /\ episode' = ep
    /\ TmdbGetFirst("/tv/id", "tv")
    /\ UNCHANGED <<apiKey, data, tv, episodeRecord, showExternalIds,
                   episodeExternalIds>>

\* The show record arrives: the metadata test, the season and episode tests,
\* then the season request.
TvFetched ==
    /\ rpc = "tv"
    /\ \E show \in TvRecords :
          /\ tv' = show
          /\ IF incomplete(titleOf(show.name, show.original_name),
                           yearOf(show.first_air_date))
             THEN /\ Finish(Threw("TMDB show metadata incomplete"))
                  /\ tmdbCalls' = Settle(tmdbCalls, "ok")
             ELSE IF invalidNumber(Number(season))
             THEN /\ Finish(Threw("Invalid season"))
                  /\ tmdbCalls' = Settle(tmdbCalls, "ok")
             ELSE IF invalidNumber(Number(episode))
             THEN /\ Finish(Threw("Invalid episode"))
                  /\ tmdbCalls' = Settle(tmdbCalls, "ok")
             ELSE /\ rpc' = "season"
                  /\ tmdbCalls' = Append(Settle(tmdbCalls, "ok"),
                                         Call("/tv/id/season/n"))
                  /\ UNCHANGED rret
    /\ UNCHANGED <<apiKey, season, episode, data, episodeRecord,
                   showExternalIds, episodeExternalIds>>

\* tmdbGet throws: mediaFromTv rejects with its error.
TvFetchFails ==
    /\ rpc = "tv"
    /\ \E f \in TmdbFailures : Finish(Threw(f))
    /\ tmdbCalls' = Settle(tmdbCalls, "failed")
    /\ UNCHANGED <<apiKey, season, episode, data, tv, episodeRecord,
                   showExternalIds, episodeExternalIds>>

\* The season record arrives: the episode is looked up, then the show's
\* external ids are requested.
SeasonFetched ==
    /\ rpc = "season"
    /\ \E s \in SeasonRecords :
          LET i == findEpisode(s, Number(episode))
          IN  IF i = 0
              THEN /\ Finish(Threw("Episode not found"))
                   /\ tmdbCalls' = Settle(tmdbCalls, "ok")
                   /\ UNCHANGED episodeRecord
              ELSE /\ episodeRecord' = s.episodes[i]
                   /\ rpc' = "showExternalIds"
                   /\ tmdbCalls' = Append(Settle(tmdbCalls, "ok"),
                                          Call("/tv/id/external_ids"))
                   /\ UNCHANGED rret
    /\ UNCHANGED <<apiKey, season, episode, data, tv, showExternalIds, episodeExternalIds>>

SeasonFetchFails ==
    /\ rpc = "season"
    /\ \E f \in TmdbFailures : Finish(Threw(f))
    /\ tmdbCalls' = Settle(tmdbCalls, "failed")
    /\ UNCHANGED <<apiKey, season, episode, data, tv, episodeRecord,
                   showExternalIds, episodeExternalIds>>

\* try { showExternalIds = await tmdbGet(...) }, then the episode request.
ShowExternalIdsFetched ==
    /\ rpc = "showExternalIds"
    /\ showExternalIds' \in ShowExternalIdsRecords
    /\ rpc' = "episodeExternalIds"
    /\ tmdbCalls' = Append(Settle(tmdbCalls, "ok"),
                           Call("/tv/id/season/n/episode/m/external_ids"))
    /\ UNCHANGED <<apiKey, season, episode, data, tv, episodeRecord,
                   episodeExternalIds, rret>>

\* catch (err) { console.warn(...) }, then the episode request.
ShowExternalIdsFails ==
    /\ rpc = "showExternalIds"
    /\ rpc' = "episodeExternalIds"
    /\ tmdbCalls' = Append(Settle(tmdbCalls, "failed"),
                           Call("/tv/id/season/n/episode/m/external_ids"))
    /\ UNCHANGED <<apiKey, season, episode, data, tv, episodeRecord,
                   showExternalIds, episodeExternalIds, rret>>

\* try { episodeExternalIds = await tmdbGet(...) }, then the descriptor.
EpisodeExternalIdsFetched ==
    /\ rpc = "episodeExternalIds"
    /\ episodeExternalIds' \in EpisodeExternalIdsRecords
    /\ Finish(Returned(showMedia(tv, episodeRecord, showExternalIds,
                                 episodeExternalIds',
                                 Number(season), Number(episode))))
    /\ tmdbCalls' = Settle(tmdbCalls, "ok")
    /\ UNCHANGED <<apiKey, season, episode, data, tv, episodeRecord, showExternalIds>>

\* Variant: the failure of the episode request is not caught.
EpisodeExternalIdsFailsUncaught ==
    /\ rpc = "episodeExternalIds"
    /\ \E f \in TmdbFailures : Finish(Threw(f))
    /\ tmdbCalls' = Settle(tmdbCalls, "failed")
    /\ UNCHANGED <<apiKey, season, episode, data, tv, episodeRecord,
                   showExternalIds, episodeExternalIds>>

\* catch (err) { console.warn(...) }, then the descriptor.
EpisodeExternalIdsFails ==
    /\ rpc = "episodeExternalIds"
    /\ Finish(Returned(showMedia(tv, episodeRecord, showExternalIds,
                                 episodeExternalIds,
                                 Number(season), Number(episode))))
    /\ tmdbCalls' = Settle(tmdbCalls, "failed")
    /\ UNCHANGED <<apiKey, season, episode, data, tv, episodeRecord,
                   showExternalIds, episodeExternalIds>>

\* The caller has the outcome; the next lookup starts afresh.
ResolveOver ==
    /\ rpc = "done"
    /\ rpc' = "idle"
    /\ season' = <<>>
    /\ episode' = <<>>
    /\ data' = NoMovieRecord
    /\ tv' = NoTvRecord
    /\ episodeRecord' = NoEpisode
    /\ showExternalIds' = NoExternalIds
    /\ episodeExternalIds' = NoExternalIds
    /\ rret' = NoReturn
    /\ tmdbCalls' = <<>>
    /\ UNCHANGED apiKey

----------------------------------------------------------------------------
(* ResolveSpec: one media lookup after another.                            *)

ResolveInit ==
    /\ apiKey \in BOOLEAN
    /\ rpc = "idle"
    /\ season = <<>>
    /\ episode = <<>>
    /\ data = NoMovieRecord
    /\ tv = NoTvRecord
    /\ episodeRecord = NoEpisode
    /\ showExternalIds = NoExternalIds
    /\ episodeExternalIds = NoExternalIds
    /\ rret = NoReturn
    /\ tmdbCalls = <<>>
    /\ TreeIdle
    /\ MetaIdle
    /\ SearchIdle
    /\ FetchIdle
    /\ RouteIdle

ResolveNext ==
    \/ StartMovie /\ UNCHANGED <<treeVars, metaVars, searchVars, fetchVars, routeVars>>
    \/ MovieFetched /\ UNCHANGED <<treeVars, metaVars, searchVars, fetchVars, routeVars>>
    \/ MovieFetchFails /\ UNCHANGED <<treeVars, metaVars, searchVars, fetchVars, routeVars>>
    \/ StartShow /\ UNCHANGED <<treeVars, metaVars, searchVars, fetchVars, routeVars>>
    \/ TvFetched /\ UNCHANGED <<treeVars, metaVars, searchVars, fetchVars, routeVars>>
    \/ TvFetchFails /\ UNCHANGED <<treeVars, metaVars, searchVars, fetchVars, routeVars>>
    \/ SeasonFetched /\ UNCHANGED <<treeVars, metaVars, searchVars, fetchVars, routeVars>>
    \/ SeasonFetchFails /\ UNCHANGED <<treeVars, metaVars, searchVars, fetchVars, routeVars>>
    \/ ShowExternalIdsFetched /\ UNCHANGED <<treeVars, metaVars, searchVars, fetchVars, routeVars>>
    \/ ShowExternalIdsFails /\ UNCHANGED <<treeVars, metaVars, searchVars, fetchVars, routeVars>>
    \/ EpisodeExternalIdsFetched /\ UNCHANGED <<treeVars, metaVars, searchVars, fetchVars, routeVars>>
    \/ EpisodeExternalIdsFails /\ UNCHANGED <<treeVars, metaVars, searchVars, fetchVars, routeVars>>
    \/ ResolveOver /\ UNCHANGED <<treeVars, metaVars, searchVars, fetchVars, routeVars>>

ResolveSpec == ResolveInit /\ [][ResolveNext]_vars

----------------------------------------------------------------------------
(* Properties of the media resolver (ResolveSpec)                          *)

\* The lookup has its primary record.
FirstCallAnswered(path) ==
    tmdbCalls # <<>> /\ tmdbCalls[1] = [path |-> path, outcome |-> "ok"]
MovieRecordHeld == FirstCallAnswered("/movie/id")
TvRecordHeld == FirstCallAnswered("/tv/id")

\* The title fields are both empty or missing.
NoTitle(first, second) == ~TruthyString(first) /\ ~TruthyString(second)

\* The date yields a year that is not a number or is not positive.
BadYear(date) == yearOf(date) = NaN \/ yearOf(date).n <= 0

\* C16: every descriptor mediaFromMovie or mediaFromTv returns has a
\* non-empty title and a releaseYear above 0, and a record whose title
\* fields are empty or whose date yields a non-positive or unparsable year
\* makes the lookup fail with the metadata-incomplete error.
C16_DescriptorComplete ==
    /\ rret.status = "returned" =>
          /\ rret.media.title \notin {<<>>, NullString, Undefined}
          /\ rret.media.releaseYear.kind = "num"
          /\ rret.media.releaseYear.n > 0
    /\ (MovieRecordHeld /\ (NoTitle(data.title, data.original_title)
                              \/ BadYear(data.release_date))) =>
          rret = Threw("TMDB movie metadata incomplete")
    /\ (TvRecordHeld /\ (NoTitle(tv.name, tv.original_name)
                           \/ BadYear(tv.first_air_date))) =>
          rret = Threw("TMDB show metadata incomplete")

\* The lookup is a show lookup: mediaFromTv has its arguments.
ShowLookup == season # <<>> /\ episode # <<>>

\* The parameter is not a finite number above 0.
NotPositiveFinite(param) ==
    LET n == Number(param) IN n.kind # "num" \/ n.n <= 0

SeasonRequested ==
    \E k \in DOMAIN tmdbCalls : tmdbCalls[k].path = "/tv/id/season/n"

\* C17 as stated: a show lookup whose season or episode is not a finite
\* number above 0 fails with Invalid season or Invalid episode, and the
\* season request is never sent.
C17_InvalidParameterAlways ==
    (ShowLookup /\ (NotPositiveFinite(season) \/ NotPositiveFinite(episode))) =>
        /\ ~SeasonRequested
        /\ rpc = "done" =>
              /\ rret.status = "threw"
              /\ rret.error \in {"Invalid season", "Invalid episode"}

\* C17 as amended: such a lookup always fails and never sends the season
\* request; it fails with Invalid season (or, the season being valid,
\* Invalid episode) once the show record has been fetched and is complete,
\* and with the error of the fetch or of the metadata test otherwise.
C17_InvalidParameterAfterShowRecord ==
    (ShowLookup /\ (NotPositiveFinite(season) \/ NotPositiveFinite(episode))) =>
        /\ ~SeasonRequested
        /\ rpc = "done" =>
              /\ rret.status = "threw"
              /\ IF ~TvRecordHeld
                 THEN rret.error \in TmdbFailures \cup {"Missing TMDB_API_KEY"}
                 ELSE IF NoTitle(tv.name, tv.original_name)
                         \/ yearOf(tv.first_air_date) \in {NaN, Num(0)}
                 THEN rret.error = "TMDB show metadata incomplete"
                 ELSE IF NotPositiveFinite(season)
                 THEN rret.error = "Invalid season"
                 ELSE rret.error = "Invalid episode"

\* A lookup with season 0 that failed with Invalid season after a complete
\* show record was fetched.
C17_Witness ==
    /\ rpc = "done"
    /\ season = <<"0">>
    /\ TvRecordHeld
    /\ rret = Threw("Invalid season")
    /\ Len(tmdbCalls) = 1

\* The four places an IMDb id can come from, in the claimed order of
\* preference; a fetch that failed left its variable null.
Candidates ==
    <<idOf(episodeExternalIds), idOf(showExternalIds),
      episodeRecord.imdb_id, tv.imdb_id>>

NonEmptyId(x) == x \notin {NullString, Undefined, <<>>}

FirstNonEmpty(c) ==
    LET hits == {k \in DOMAIN c : NonEmptyId(c[k])}
    IN  IF hits = {} THEN Undefined
        ELSE c[CHOOSE k \in hits : \A j \in hits : k <= j]

ShowReturned == rpc = "done" /\ rret.status = "returned" /\ rret.media.type = "show"

\* C18: the imdbId of a show descriptor is the first non-empty value among
\* the episode-level external id, the show-level external id, the episode
\* record's embedded id and the show record's embedded id; it is undefined
\* when all four are empty, and the episode-level id wins over the
\* show-level id when both are present.
C18_CrossRefPrecedence ==
    ShowReturned =>
        /\ rret.media.imdbId = FirstNonEmpty(Candidates)
        /\ (\A k \in 1..4 : ~NonEmptyId(Candidates[k])) =>
              rret.media.imdbId = Undefined
        /\ (NonEmptyId(Candidates[1]) /\ NonEmptyId(Candidates[2])) =>
              rret.media.imdbId = Candidates[1]

\* Both external ids were fetched and are present, with both embedded ids.
C18_Witness ==
    /\ ShowReturned
    /\ \A k \in 1..4 : NonEmptyId(Candidates[k])
    /\ rret.media.imdbId = Id_episodeExternal

ShowExternalIdsPath == "/tv/id/external_ids"
EpisodeExternalIdsPath == "/tv/id/season/n/episode/m/external_ids"

FailedCall(path) ==
    \E k \in DOMAIN tmdbCalls :
        tmdbCalls[k] = [path |-> path, outcome |-> "failed"]

Requested(path) == \E k \in DOMAIN tmdbCalls : tmdbCalls[k].path = path

\* C19: when the show-level or the episode-level external-id fetch fails (or
\* both), the lookup does not fail: the other fetch is still sent, the
\* failed fetch counts as an absent id, and the descriptor is returned.
C19_ExternalIdFailureTolerated ==
    (FailedCall(ShowExternalIdsPath) \/ FailedCall(EpisodeExternalIdsPath)) =>
        /\ rret.status # "threw"
        /\ Requested(ShowExternalIdsPath)
        /\ Requested(EpisodeExternalIdsPath)
        /\ FailedCall(ShowExternalIdsPath) => showExternalIds.isNull
        /\ FailedCall(EpisodeExternalIdsPath) => episodeExternalIds.isNull
        /\ rpc = "done" =>
              /\ ShowReturned
              /\ rret.media.imdbId =
                    FirstNonEmpty(
                        <<IF FailedCall(EpisodeExternalIdsPath) THEN Undefined
                          ELSE episodeExternalIds.imdb_id,
                          IF FailedCall(ShowExternalIdsPath) THEN Undefined
                          ELSE showExternalIds.imdb_id,
                          episodeRecord.imdb_id, tv.imdb_id>>)

\* Both external-id fetches failed and the descriptor carries the episode
\* record's embedded id.
C19_Witness ==
    /\ ShowReturned
    /\ FailedCall(ShowExternalIdsPath)
    /\ FailedCall(EpisodeExternalIdsPath)
    /\ rret.media.imdbId = Id_episodeEmbedded

----------------------------------------------------------------------------
(* fetchOpenSubtitlesCaptions: the subtitle fetcher.                       *)
(* A download link is a sequence of lexical tokens in which ".gz" and      *)
(* "download/" are tokens of their own.                                    *)

\* str.replace(token, replacement): the first occurrence only.
RECURSIVE replaceFirst(_, _, _)
replaceFirst(str, token, replacement) ==
    IF str = <<>> THEN <<>>
    ELSE IF Head(str) = token THEN replacement \o Tail(str)
    ELSE <<Head(str)>> \o replaceFirst(Tail(str), token, replacement)

\* A record of the OpenSubtitles payload. linkIsString is false for a
\* record whose SubDownloadLink is a truthy value that is not a string;
\* isNull is true for a null entry of the array.
Item(isNull, linkIsString, link, altLink, iso, id, fileId, format) ==
    [isNull |-> isNull, linkIsString |-> linkIsString,
     SubDownloadLink |-> link, SubDownload_Link |-> altLink,
     ISO639 |-> iso, LanguageName |-> NullString,
     ID |-> id, SubFileId |-> fileId, SubFormat |-> format]

Link(name) == <<"https", "://", "dl.opensubtitles.org", "/en/", "download/", name, ".gz">>

Items ==
    {Item(FALSE, TRUE, Link("f1"), NullString, <<"F", "R">>, <<"i1">>, <<"s1">>, <<"vtt">>),
     Item(FALSE, TRUE, NullString, Link("f2"), NullString, NullString, NullString, NullString),
     Item(FALSE, TRUE, NullString, NullString, NullString, <<"i3">>, NullString, <<"vtt">>),
     Item(FALSE, TRUE, <<".gz">>, NullString, NullString, NullString, <<"s4">>, <<>>),
     Item(FALSE, TRUE, NullString, <<>>, NullString, NullString, NullString, NullString),
     Item(FALSE, FALSE, <<"7">>, NullString, NullString, <<"i6">>, NullString, NullString),
     Item(TRUE, TRUE, NullString, NullString, NullString, NullString, NullString, NullString)}

MaxItems == 2

\* What res.json() can give: a value that is not an array, or an array.
Payloads ==
    {[kind |-> "object", payload |-> <<>>]} \cup
    {[kind |-> "array", payload |-> l] : l \in SeqsUpTo(Items, MaxItems)}

Failed(kind) == [kind |-> kind, payload |-> <<>>]

\* The arguments of a call: the descriptor's imdbId (undefined, empty,
\* "tt1", "12", "nm7") and the season and episode numbers.
FetchArgs ==
    [imdbId : {Undefined, <<>>, Id_episodeExternal, <<"1", "2">>, <<"n", "m", "7">>},
     season : {NoNumber, Num(1)},
     episode : {NoNumber, Num(0), Num(2)}]

\* Variant: the first two characters go whatever they are.
imdbNumericAnyTwo(id) ==
    IF Len(id) >= 2 THEN SubSeq(id, 3, Len(id)) ELSE id

\* imdbId.startsWith("tt") ? imdbId.slice(2) : imdbId
imdbNumeric(id) ==
    IF Len(id) >= 2 /\ id[1] = "t" /\ id[2] = "t" THEN SubSeq(id, 3, Len(id)) ELSE id

\* JS truthiness of a number that may be undefined.
TruthyNumber(x) == x.kind = "inf" \/ (x.kind = "num" /\ x.n # 0)

\* season && episode ? `episode-E/imdbid-N/season-S` : `imdbid-N`
searchPath(id, se, ep) ==
    IF TruthyNumber(se) /\ TruthyNumber(ep)
    THEN [episode |-> ep, imdbid |-> imdbNumeric(id), season |-> se]
    ELSE [episode |-> NoNumber, imdbid |-> imdbNumeric(id), season |-> NoNumber]

\* item.SubDownloadLink || item.SubDownload_Link || ""
downloadUrlRaw(item) ==
    OrElse(item.SubDownloadLink, OrElse(item.SubDownload_Link, <<>>))

\* downloadUrlRaw ? downloadUrlRaw.replace(".gz", "")
\*                    .replace("download/", "download/subencoding-utf8/") : null
downloadUrl(item) ==
    IF TruthyString(downloadUrlRaw(item))
    THEN replaceFirst(replaceFirst(downloadUrlRaw(item), ".gz", <<>>),
                      "download/", <<"download/", "subencoding-utf8/">>)
    ELSE NullString

\* The callback of data.map throws on a null entry (a property of null is
\* read) and on a link that is not a string (it has no replace method).
mapThrows(item) == item.isNull \/ ~item.linkIsString

\* What Math.random().toString(36).slice(2) can give.
Randoms == {"r1", "r2"}

\* Variant: the upstream id goes before the URL.
captionOfUpstreamIdFirst(item, id, rnd) ==
    [id |-> OrElse(item.ID,
                OrElse(downloadUrl(item),
                    OrElse(item.SubFileId, id \o <<"-", rnd>>))),
     language |-> OrElse(toLowerCase(item.ISO639),
                      OrElse(toLowerCase(item.LanguageName), <<>>)),
     url |-> OrElse(downloadUrl(item), <<>>),
     type |-> OrElse(item.SubFormat, <<"srt">>)]

\* The record data.map builds from an item; rnd is what Math.random gives
\* for it.
captionOf(item, id, rnd) ==
    [id |-> OrElse(downloadUrl(item),
                OrElse(item.ID,
                    OrElse(item.SubFileId, id \o <<"-", rnd>>))),
     language |-> OrElse(toLowerCase(item.ISO639),
                      OrElse(toLowerCase(item.LanguageName), <<>>)),
     url |-> OrElse(downloadUrl(item), <<>>),
     type |-> OrElse(item.SubFormat, <<"srt">>)]

\* Variant: data.map(...) with the filter left out.
mapWithoutFilter(payload, id, rnd) ==
    [k \in DOMAIN payload |-> captionOf(payload[k], id, rnd[k])]

\* data.map(...).filter((s) => s.url)
mapAndFilter(payload, id, rnd) ==
    SelectSeq([k \in DOMAIN payload |-> captionOf(payload[k], id, rnd[k])],
              LAMBDA c : TruthyString(c.url))

\* return out; return [];
ReturnCaptions(v) ==
    /\ fpc' = "done"
    /\ fret' = [status |-> "returned", value |-> v]

\* Variant: the catch block throws the error on.
onErrorRethrow == [status |-> "threw", value |-> <<>>]

\* catch (err) { console.error(...); return []; }
onError == [status |-> "returned", value |-> <<>>]

\* The call up to its first await: nothing is asked without an id.
StartFetch ==
    /\ fpc = "idle"
    /\ \E a \in FetchArgs :
          /\ fargs' = a
          /\ IF ~TruthyString(a.imdbId)
             THEN /\ ReturnCaptions(<<>>)
                  /\ UNCHANGED subtitleRequests
             ELSE /\ fpc' = "awaitFetch"
                  /\ subtitleRequests' = <<searchPath(a.imdbId, a.season, a.episode)>>
                  /\ UNCHANGED fret
    /\ UNCHANGED upstream

\* getFetch() or f(url, ...) rejects.
FetchRejects ==
    /\ fpc = "awaitFetch"
    /\ upstream' = Failed("rejected")
    /\ fpc' = "done"
    /\ fret' = onError
    /\ UNCHANGED <<fargs, subtitleRequests>>

\* if (!res.ok) { console.warn(...); return []; }
StatusNotOk ==
    /\ fpc = "awaitFetch"
    /\ upstream' = Failed("status")
    /\ ReturnCaptions(<<>>)
    /\ UNCHANGED <<fargs, subtitleRequests>>

\* res.ok: const data = await res.json()
StatusOk ==
    /\ fpc = "awaitFetch"
    /\ fpc' = "awaitJson"
    /\ UNCHANGED <<fargs, subtitleRequests, upstream, fret>>

\* res.json() rejects: the body is not JSON.
JsonRejects ==
    /\ fpc = "awaitJson"
    /\ upstream' = Failed("badjson")
    /\ fpc' = "done"
    /\ fret' = onError
    /\ UNCHANGED <<fargs, subtitleRequests>>

\* The payload arrives: the array test, then map and filter.
JsonParsed ==
    /\ fpc = "awaitJson"
    /\ upstream' \in Payloads
    /\ IF upstream'.kind # "array"
       THEN ReturnCaptions(<<>>)
       ELSE IF \E k \in DOMAIN upstream'.payload : mapThrows(upstream'.payload[k])
       THEN fpc' = "done" /\ fret' = onError
       ELSE \E rnd \in [DOMAIN upstream'.payload -> Randoms] :
                ReturnCaptions(mapAndFilter(upstream'.payload, fargs.imdbId, rnd))
    /\ UNCHANGED <<fargs, subtitleRequests>>

\* The caller has the captions; the next call starts afresh.
FetchOver ==
    /\ fpc = "done"
    /\ fpc' = "idle"
    /\ fargs' = NoArgs
    /\ subtitleRequests' = <<>>
    /\ upstream' = NoUpstream
    /\ fret' = NoCaptions

----------------------------------------------------------------------------
(* FetchSpec: one fetchOpenSubtitlesCaptions call after another.           *)

FetchInit ==
    /\ FetchIdle
    /\ ResolveIdle
    /\ RouteIdle
    /\ TreeIdle
    /\ MetaIdle
    /\ SearchIdle

FetchNext ==
    \/ StartFetch /\ UNCHANGED <<treeVars, metaVars, searchVars, resolveVars, routeVars>>
    \/ FetchRejects /\ UNCHANGED <<treeVars, metaVars, searchVars, resolveVars, routeVars>>
    \/ StatusNotOk /\ UNCHANGED <<treeVars, metaVars, searchVars, resolveVars, routeVars>>
    \/ StatusOk /\ UNCHANGED <<treeVars, metaVars, searchVars, resolveVars, routeVars>>
    \/ JsonRejects /\ UNCHANGED <<treeVars, metaVars, searchVars, resolveVars, routeVars>>
    \/ JsonParsed /\ UNCHANGED <<treeVars, metaVars, searchVars, resolveVars, routeVars>>
    \/ FetchOver /\ UNCHANGED <<treeVars, metaVars, searchVars, resolveVars, routeVars>>

FetchSpec == FetchInit /\ [][FetchNext]_vars

----------------------------------------------------------------------------
(* Properties of the subtitle fetcher (FetchSpec)                          *)

\* C20: fetchOpenSubtitlesCaptions never throws to its caller: whatever the
\* id and whatever OpenSubtitles does, the finished call has returned a
\* sequence, and the sequence is empty when the id is absent or falsy, when
\* the transport failed, when the status was not a success and when the
\* payload was not an array.
C20_FetcherNeverThrows ==
    /\ fret.status # "threw"
    /\ fpc = "done" =>
          /\ fret.status = "returned"
          /\ fret.value \in Seq([id : Seq(STRING), language : Seq(STRING),
                                 url : Seq(STRING), type : Seq(STRING)])
          /\ (\/ fargs.imdbId \in {Undefined, NullString, <<>>}
              \/ upstream.kind \in {"rejected", "status", "object"}) =>
                fret.value = <<>>

\* A payload with a null entry beside a usable record: the call returned,
\* and returned nothing.
C20_Witness ==
    /\ fpc = "done"
    /\ upstream.kind = "array"
    /\ \E k \in DOMAIN upstream.payload : upstream.payload[k].isNull
    /\ \E k \in DOMAIN upstream.payload :
          TruthyString(downloadUrl(upstream.payload[k]))
    /\ fret = [status |-> "returned", value |-> <<>>]

\* The call has finished after OpenSubtitles answered with an array.
ArrayAnswered == fpc = "done" /\ upstream.kind = "array"

\* The positions of the payload whose record has a link that survives the
\* rewriting as a non-empty URL.
Usable(item) ==
    /\ ~item.isNull
    /\ item.linkIsString
    /\ TruthyString(downloadUrl(item))

KeptPositions(payload) == {k \in DOMAIN payload : Usable(payload[k])}

\* The position of the payload the j-th returned record comes from.
SourceOf(payload, j) ==
    CHOOSE k \in KeptPositions(payload) :
        Cardinality({i \in KeptPositions(payload) : i <= k}) = j

\* The returned records are those of the kept positions, in upstream order,
\* each with its URL and with the format "srt" where upstream names none.
KeptInOrder ==
    /\ Len(fret.value) = Cardinality(KeptPositions(upstream.payload))
    /\ \A j \in DOMAIN fret.value :
          LET item == upstream.payload[SourceOf(upstream.payload, j)]
          IN  /\ fret.value[j].url = downloadUrl(item)
              /\ fret.value[j].type = IF TruthyString(item.SubFormat)
                                      THEN item.SubFormat
                                      ELSE <<"srt">>

NonEmptyUrls == \A j \in DOMAIN fret.value : TruthyString(fret.value[j].url)

Malformed == \E k \in DOMAIN upstream.payload :
                 upstream.payload[k].isNull \/ ~upstream.payload[k].linkIsString

\* C21 as stated: every returned record has a non-empty url; records with
\* no download link are dropped while the remaining records of the same
\* response are still returned in upstream order, and a record with no
\* upstream format gets the type "srt".
C21_LinklessDropped ==
    /\ NonEmptyUrls
    /\ ArrayAnswered => KeptInOrder

\* C21 as amended: the same for a response none of whose entries is null or
\* has a link that is not a string; a response with such an entry comes
\* back empty, its usable records included.
C21_LinklessDroppedWellFormed ==
    /\ NonEmptyUrls
    /\ ArrayAnswered => IF Malformed THEN fret.value = <<>> ELSE KeptInOrder

\* A record without a link before one with a link and no format: the second
\* alone is returned, with the type "srt".
C21_Witness ==
    /\ ArrayAnswered
    /\ Len(upstream.payload) = 2
    /\ ~TruthyString(downloadUrlRaw(upstream.payload[1]))
    /\ ~upstream.payload[1].isNull
    /\ Len(fret.value) = 1
    /\ fret.value[1].url = downloadUrl(upstream.payload[2])
    /\ fret.value[1].type = <<"srt">>

Letters ==
    {"a", "b", "c", "d", "e", "f", "g", "h", "i", "j", "k", "l", "m",
     "n", "o", "p", "q", "r", "s", "t", "u", "v", "w", "x", "y", "z"}

\* The id begins with two letters.
AlphabeticPrefix(id) ==
    Len(id) >= 2 /\ lowerChar(id[1]) \in Letters /\ lowerChar(id[2]) \in Letters

WithoutFirstTwo(id) == SubSeq(id, 3, Len(id))

\* A request went to OpenSubtitles.
Asked == subtitleRequests # <<>>

\* C22 as stated: the id in the query path is the call's id without its
\* leading two-letter prefix whenever it has one, and the id unchanged
\* otherwise.
C22_AlphabeticPrefixStripped ==
    Asked =>
        subtitleRequests[1].imdbid =
            IF AlphabeticPrefix(fargs.imdbId)
            THEN WithoutFirstTwo(fargs.imdbId)
            ELSE fargs.imdbId

\* C22 as amended: the id in the query path is the call's id without its
\* leading "tt" whenever it begins with "tt", and the id unchanged
\* otherwise, another two-letter prefix included.
C22_TtPrefixStripped ==
    Asked =>
        /\ Len(subtitleRequests) = 1
        /\ subtitleRequests[1].imdbid =
              IF Len(fargs.imdbId) >= 2 /\ SubSeq(fargs.imdbId, 1, 2) = <<"t", "t">>
              THEN WithoutFirstTwo(fargs.imdbId)
              ELSE fargs.imdbId

\* An episode query for "tt1" asks for imdbid "1".
C22_Witness ==
    /\ Asked
    /\ fargs.imdbId = <<"t", "t", "1">>
    /\ subtitleRequests[1].imdbid = <<"1">>
    /\ subtitleRequests[1].season = Num(1)

\* The ids of the records another run over the same payload returns, with
\* the call's id and the random draws that run has.
IdsOfRun(id, rnd) ==
    LET out == mapAndFilter(upstream.payload, id, rnd)
    IN  [j \in DOMAIN out |-> out[j].id]

\* C28: every returned record has its url as id, the URL of the upstream
\* record it comes from; neither the upstream id nor the random fallback
\* decides the id of a returned record, so any two runs over the same
\* payload return the same sequence of ids.
C28_IdIsUrl ==
    /\ \A j \in DOMAIN fret.value : fret.value[j].id = fret.value[j].url
    /\ (ArrayAnswered /\ ~Malformed) =>
          /\ \A j \in DOMAIN fret.value :
                fret.value[j].id =
                    downloadUrl(upstream.payload[SourceOf(upstream.payload, j)])
          /\ \A a \in FetchArgs, rnd \in [DOMAIN upstream.payload -> Randoms] :
                TruthyString(a.imdbId) =>
                    IdsOfRun(a.imdbId, rnd) = [j \in DOMAIN fret.value |-> fret.value[j].id]

\* A record with an upstream id and no link is dropped, and the record
\* returned beside it has its URL as id although it has an upstream id too.
C28_Witness ==
    /\ ArrayAnswered
    /\ Len(upstream.payload) = 2
    /\ ~TruthyString(downloadUrlRaw(upstream.payload[1]))
    /\ TruthyString(upstream.payload[1].ID)
    /\ TruthyString(upstream.payload[2].ID)
    /\ Len(fret.value) = 1
    /\ fret.value[1].id = fret.value[1].url
    /\ fret.value[1].id # upstream.payload[2].ID

----------------------------------------------------------------------------
(* The route handlers of app.js: full aggregation.                         *)

\* The descriptors the resolver hands to a route.
Descriptors ==
    [type : {"movie"}, title : {<<"T">>}, releaseYear : {Num(1999)},
     imdbId : {Undefined, Id_showEmbedded},
     seasonNumber : {NoNumber}, episodeNumber : {NoNumber}] \cup
    [type : {"show"}, title : {<<"T">>}, releaseYear : {Num(1999)},
     imdbId : {Undefined, Id_episodeExternal},
     seasonNumber : {Num(1)}, episodeNumber : {Num(2)}]

\* What a handler can catch: the engine's NotFoundError or any other error.
Error(isNotFound, message) == [isNotFound |-> isNotFound, message |-> message]

ResolverErrors ==
    {Error(FALSE, msg) :
        msg \in TmdbFailures \cup
            {"Missing TMDB_API_KEY", "TMDB movie metadata incomplete",
             "TMDB show metadata incomplete", "Invalid season",
             "Invalid episode", "Episode not found"}}

EngineErrors ==
    {Error(TRUE, "not found"), Error(FALSE, "scrape failed"), Error(FALSE, "")}

\* What providers.runAll can return besides null.
RunResults == Leaves \cup Level2 \cup {Arr(<<>>)}

\* What fetchOpenSubtitlesCaptions can return to a route.
FetchedCaptions == SeqsUpTo(CaptionRecords, MaxCaptions)

\* res.json(result)
Success(t) == [status |-> 200, error |-> "", tree |-> t]

\* res.status(status).json({ error })
Failure(status, error) == [status |-> status, error |-> error, tree |-> Scalar]

\* Variant: every caught error is answered with 500.
CaughtAlwaysGeneric(err) ==
    Failure(500, IF err.message # "" THEN err.message ELSE "internal")

\* catch (err): err instanceof NotFoundError ? 404 : 500, with
\* err?.message || "internal"
Caught(err) ==
    Failure(IF err.isNotFound THEN 404 ELSE 500,
            IF err.message # "" THEN err.message ELSE "internal")

\* Variant: the response is sent twice.
SendTwice(r) == responses' = Append(Append(responses, r), r)

\* res.json(...)
Send(r) == responses' = Append(responses, r)

\* The response is sent and the handler is over.
Respond(r) ==
    /\ Send(r)
    /\ apc' = "responded"

\* if (!result): null stands for every falsy value; an object or an array
\* is truthy whatever it holds.
noOutput(out) == out.isNull

\* Variant: the playlist alone decides.
wantsCaptionsPlaylistOnly(firstPlaylist, m) == TruthyString(firstPlaylist)

\* if (firstPlaylist && media.imdbId)
wantsCaptions(firstPlaylist, m) ==
    TruthyString(firstPlaylist) /\ TruthyString(m.imdbId)

\* Variant: the show route asks without season and episode.
captionArgsTitleOnly(m) ==
    [imdbId |-> m.imdbId, season |-> NoNumber, episode |-> NoNumber]

\* fetchOpenSubtitlesCaptions(media.imdbId) in the movie routes,
\* fetchOpenSubtitlesCaptions(media.imdbId, media.season?.number,
\* media.episode?.number) in the show routes.
captionArgs(m) ==
    [imdbId |-> m.imdbId, season |-> m.seasonNumber, episode |-> m.episodeNumber]

\* GET /api/movie/:tmdbId and /movie/:tmdbId, up to mediaFromMovie.
AggMovieRequest ==
    /\ apc = "idle"
    /\ apc' = "movie"
    /\ UNCHANGED <<descriptor, runAllOut, captionCalls, responses, treeVars>>
    /\ UNCHANGED thrown

\* GET /api/tv/... and /tv/..., up to mediaFromTv.
AggShowRequest ==
    /\ apc = "idle"
    /\ apc' = "show"
    /\ UNCHANGED <<descriptor, runAllOut, captionCalls, responses, treeVars>>
    /\ UNCHANGED thrown

\* const media = await mediaFrom...; then providers.runAll({ media })
AggMediaResolved ==
    /\ apc \in {"movie", "show"}
    /\ \E m \in Descriptors : m.type = apc /\ descriptor' = m
    /\ apc' = "runAll"
    /\ UNCHANGED <<runAllOut, captionCalls, responses, treeVars>>
    /\ UNCHANGED thrown

\* The resolver throws: the catch block answers.
AggMediaFails ==
    /\ apc \in {"movie", "show"}
    /\ \E err \in ResolverErrors : Respond(Caught(err)) /\ thrown' = err
    /\ UNCHANGED <<descriptor, runAllOut, captionCalls, treeVars>>

\* runAll returns: the no-output test, the walker, the host, and either the
\* response or the call of the subtitle fetcher.
AggRunAllReturns ==
    /\ apc = "runAll"
    /\ \E isNull \in BOOLEAN :
          /\ runAllOut' = [isNull |-> isNull, returned |-> TRUE]
          /\ IF noOutput(runAllOut')
             THEN /\ Respond(Failure(404, "no_output"))
                  /\ UNCHANGED <<captionCalls, treeVars>>
             ELSE /\ input' \in RunResults
                  /\ tree' = input'
                  /\ ret' = findFirstPlaylist(input')
                  /\ IF wantsCaptions(ret', descriptor)
                     THEN /\ host' = playlistHost(ret')
                          /\ IF Truthy(host')
                             THEN /\ captionCalls' =
                                        Append(captionCalls, captionArgs(descriptor))
                                  /\ apc' = "captions"
                                  /\ UNCHANGED responses
                             ELSE /\ Respond(Success(tree'))
                                  /\ UNCHANGED captionCalls
                     ELSE /\ Respond(Success(tree'))
                          /\ UNCHANGED <<host, captionCalls>>
                  /\ UNCHANGED <<phase, prev, captions>>
    /\ UNCHANGED descriptor
    /\ UNCHANGED thrown

\* runAll throws: the catch block answers.
AggRunAllThrows ==
    /\ apc = "runAll"
    /\ \E err \in EngineErrors : Respond(Caught(err)) /\ thrown' = err
    /\ UNCHANGED <<descriptor, runAllOut, captionCalls, treeVars>>

\* Variant: the response fails after the injection.
AggCaptionsFetchedThenFails ==
    /\ apc = "captions"
    /\ captions' \in FetchedCaptions
    /\ tree' = IF Len(captions') > 0
               THEN injectCaptionsForHost(tree, host, captions')
               ELSE tree
    /\ Respond(Caught(Error(FALSE, "send failed")))
    /\ thrown' = Error(FALSE, "send failed")
    /\ UNCHANGED <<descriptor, runAllOut, captionCalls, phase, input, prev, host, ret>>

\* The captions arrive: a non-empty sequence is injected, the result is sent.
AggCaptionsFetched ==
    /\ apc = "captions"
    /\ captions' \in FetchedCaptions
    /\ tree' = IF Len(captions') > 0
               THEN injectCaptionsForHost(tree, host, captions')
               ELSE tree
    /\ Respond(Success(tree'))
    /\ UNCHANGED <<descriptor, runAllOut, captionCalls, phase, input, prev, host, ret>>
    /\ UNCHANGED thrown

\* The request is over; the next one starts afresh.
AggOver ==
    /\ apc = "responded"
    /\ apc' = "idle"
    /\ descriptor' = NoMedia
    /\ runAllOut' = NoRunOutput
    /\ captionCalls' = <<>>
    /\ responses' = <<>>
    /\ phase' = "idle"
    /\ input' = Scalar
    /\ prev' = Scalar
    /\ tree' = Scalar
    /\ host' = ""
    /\ captions' = <<>>
    /\ ret' = NullString
    /\ thrown' = NoError

----------------------------------------------------------------------------
(* AggSpec: one full-aggregation request after another.                    *)

AggInit ==
    /\ RouteIdle
    /\ TreeIdle
    /\ ResolveIdle
    /\ FetchIdle
    /\ MetaIdle
    /\ SearchIdle

AggNext ==
    \/ AggMovieRequest /\ UNCHANGED <<metaVars, searchVars, resolveVars, fetchVars>>
    \/ AggShowRequest /\ UNCHANGED <<metaVars, searchVars, resolveVars, fetchVars>>
    \/ AggMediaResolved /\ UNCHANGED <<metaVars, searchVars, resolveVars, fetchVars>>
    \/ AggMediaFails /\ UNCHANGED <<metaVars, searchVars, resolveVars, fetchVars>>
    \/ AggRunAllReturns /\ UNCHANGED <<metaVars, searchVars, resolveVars, fetchVars>>
    \/ AggRunAllThrows /\ UNCHANGED <<metaVars, searchVars, resolveVars, fetchVars>>
    \/ AggCaptionsFetched /\ UNCHANGED <<metaVars, searchVars, resolveVars, fetchVars>>
    \/ AggOver /\ UNCHANGED <<metaVars, searchVars, resolveVars, fetchVars>>

AggSpec == AggInit /\ [][AggNext]_vars

----------------------------------------------------------------------------
(* Properties of the full-aggregation routes (AggSpec)                     *)

\* The request has been answered after the engine returned a tree.
AnsweredWithTree == apc = "responded" /\ runAllOut.returned /\ ~runAllOut.isNull

HasPlaylist == PreorderPlaylists(input) # <<>>

HasCrossRef == NonEmptyId(descriptor.imdbId)

\* The call the claim expects: season and episode for a show, none for a movie.
ExpectedCaptionCall ==
    IF descriptor.type = "show"
    THEN [imdbId |-> descriptor.imdbId, season |-> descriptor.seasonNumber,
          episode |-> descriptor.episodeNumber]
    ELSE [imdbId |-> descriptor.imdbId, season |-> NoNumber, episode |-> NoNumber]

\* The captions fetched are in every node of the response whose playlist has
\* the host of the first playlist, and the response is the injector's result.
InjectedEverywhere ==
    LET h == playlistHost(Head(PreorderPlaylists(input)))
        sent == responses[1].tree
    IN  /\ sent = injectCaptionsForHost(input, h, captions)
        /\ Paths(sent) = Paths(input)
        /\ \A p \in Paths(input) :
              (/\ NodeAt(input, p).kind = "object"
               /\ NodeAt(input, p).playlistType = "string"
               /\ playlistHost(NodeAt(input, p).playlist) = h) =>
                    IdsOf(captions) \subseteq IdsOf(CaptionSeq(NodeAt(sent, p)))

\* C12 as stated: whenever the engine's tree holds a playlist and the
\* descriptor has an imdbId, captions are fetched (with season and episode
\* for a show, without them for a movie) and a non-empty caption set is
\* injected by host into the whole tree before the response is sent.
C12_CaptionsWheneverPlaylist ==
    (AnsweredWithTree /\ HasPlaylist /\ HasCrossRef) =>
        /\ captionCalls = <<ExpectedCaptionCall>>
        /\ responses[1].status = 200
        /\ captions # <<>> => InjectedEverywhere

\* C12 as amended: the same whenever, in addition, the first playlist of the
\* tree yields a host; when it yields none, captions are not fetched and the
\* tree is sent as the engine returned it.
C12_CaptionsWhenHost ==
    (AnsweredWithTree /\ HasPlaylist /\ HasCrossRef) =>
        IF Truthy(playlistHost(Head(PreorderPlaylists(input))))
        THEN /\ captionCalls = <<ExpectedCaptionCall>>
             /\ responses = <<Success(tree)>>
             /\ captions # <<>> => InjectedEverywhere
             /\ captions = <<>> => tree = input
        ELSE /\ captionCalls = <<>>
             /\ responses = <<Success(input)>>

\* A show request whose captions went into a node below the root.
C12_Witness ==
    /\ AnsweredWithTree
    /\ descriptor.type = "show"
    /\ captionCalls = <<[imdbId |-> Id_episodeExternal, season |-> Num(1),
                         episode |-> Num(2)]>>
    /\ captions # <<>>
    /\ \E p \in Paths(input) :
          /\ p # <<>>
          /\ NodeAt(responses[1].tree, p) # NodeAt(input, p)
          /\ IdsOf(captions) \subseteq IdsOf(CaptionSeq(NodeAt(responses[1].tree, p)))

\* An object with no entries, an array with no entries.
EmptyResults == {Obj("undefined", <<>>, "undefined", <<>>, <<>>), Arr(<<>>)}

\* C13: when runAll returns null or a result with no entries, the request
\* ends with 404 no_output and not with a success response.
C13_NoOutputOnNullOrEmpty ==
    (/\ apc = "responded"
     /\ runAllOut.returned
     /\ (runAllOut.isNull \/ input \in EmptyResults)) =>
        responses = <<Failure(404, "no_output")>>

\* C14: when the descriptor has no imdbId or the tree holds no playlist, the
\* request still succeeds, the subtitle fetcher is never called and the
\* response is the engine's tree with no node modified.
C14_SilentSkip ==
    (runAllOut.returned /\ ~runAllOut.isNull /\ (~HasCrossRef \/ ~HasPlaylist)) =>
        /\ captionCalls = <<>>
        /\ apc = "responded"
        /\ responses = <<Success(input)>>

\* A request without imdbId whose tree has a playlist on a known host.
C14_Witness ==
    /\ AnsweredWithTree
    /\ ~HasCrossRef
    /\ HasPlaylist
    /\ playlistHost(Head(PreorderPlaylists(input))) = "cdn1"
    /\ responses = <<Success(input)>>

----------------------------------------------------------------------------
(* The route handlers of server.js: first success. The search reads only   *)
(* media.type; the rest of the descriptor the resolver returned is drawn   *)
(* where the handler first reads it.                                       *)

\* The stream objects the scrapers return.
streamObject(token) ==
    IF token = "s1"
    THEN Obj("string", <<"https", "://", "cdn1", "/a.m3u8">>, "array",
             <<Cap("u1", "en")>>, <<>>)
    ELSE Obj("string", <<"/relative.m3u8">>, "undefined", <<>>, <<>>)

\* const media = await mediaFrom...(...) throws: the catch block answers and
\* findFirstProvider is not called.
FirstMediaFails ==
    /\ pc = "idle"
    /\ \E err \in ResolverErrors : Send(Caught(err)) /\ thrown' = err
    /\ pc' = "responded"
    /\ UNCHANGED <<media, embedMetas, compatibleSources, srcIdx, embeds,
                   orderedEmbeds, embIdx, result, sourceLog, embedLog>>
    /\ UNCHANGED <<metaVars, treeVars, resolveVars, fetchVars,
                   apc, descriptor, runAllOut, captionCalls>>

\* findFirstProvider rejects: the catch block answers.
FirstSearchFailed ==
    /\ pc = "failed"
    /\ \E err \in EngineErrors : Send(Caught(err)) /\ thrown' = err
    /\ pc' = "responded"
    /\ UNCHANGED <<media, embedMetas, compatibleSources, srcIdx, embeds,
                   orderedEmbeds, embIdx, result, sourceLog, embedLog>>
    /\ UNCHANGED <<metaVars, treeVars, resolveVars, fetchVars,
                   apc, descriptor, runAllOut, captionCalls>>

\* Variant: a search that found nothing is answered like one that found a
\* stream.
FirstAfterSearchNoTest ==
    /\ pc = "done"
    /\ descriptor' \in {m \in Descriptors : m.type = media}
    /\ tree' = streamObject(result.stream)
    /\ Send(Success(tree'))
    /\ pc' = "responded"
    /\ UNCHANGED <<captionCalls, media, embedMetas, compatibleSources, srcIdx,
                   embeds, orderedEmbeds, embIdx, result, sourceLog, embedLog>>
    /\ UNCHANGED <<metaVars, resolveVars, fetchVars, apc, runAllOut,
                   phase, input, prev, host, captions, ret>>
    /\ UNCHANGED thrown

\* findFirstProvider returned: the no-output test, then the response or the
\* call of the subtitle fetcher.
FirstAfterSearch ==
    /\ pc = "done"
    /\ IF result.isNull
       THEN /\ Send(Failure(404, "no_output"))
            /\ pc' = "responded"
            /\ UNCHANGED <<descriptor, captionCalls, tree>>
       ELSE /\ descriptor' \in {m \in Descriptors : m.type = media}
            /\ tree' = streamObject(result.stream)
            /\ IF TruthyString(descriptor'.imdbId)
               THEN /\ captionCalls' = Append(captionCalls, captionArgs(descriptor'))
                    /\ pc' = "captions"
                    /\ UNCHANGED responses
               ELSE /\ Send(Success(tree'))
                    /\ pc' = "responded"
                    /\ UNCHANGED captionCalls
    /\ UNCHANGED <<media, embedMetas, compatibleSources, srcIdx, embeds,
                   orderedEmbeds, embIdx, result, sourceLog, embedLog>>
    /\ UNCHANGED <<metaVars, resolveVars, fetchVars, apc, runAllOut,
                   phase, input, prev, host, captions, ret>>
    /\ UNCHANGED thrown

\* The captions arrive: a non-empty sequence goes into result.stream, the
\* result is sent.
FirstCaptionsFetched ==
    /\ pc = "captions"
    /\ captions' \in {f \in FetchedCaptions : Len(f) <= 1}
    /\ tree' = IF Len(captions') > 0
               THEN injectCaptionsIntoStream(tree, captions')
               ELSE tree
    /\ Send(Success(tree'))
    /\ pc' = "responded"
    /\ UNCHANGED <<media, embedMetas, compatibleSources, srcIdx, embeds,
                   orderedEmbeds, embIdx, result, sourceLog, embedLog>>
    /\ UNCHANGED <<metaVars, resolveVars, fetchVars, apc, descriptor, runAllOut,
                   captionCalls, phase, input, prev, host, ret>>
    /\ UNCHANGED thrown

\* The request is answered; the process takes the next one. The caches stay.
FirstOver ==
    /\ pc = "responded"
    /\ pc' = "idle"
    /\ media' = ""
    /\ embedMetas' = <<>>
    /\ compatibleSources' = <<>>
    /\ srcIdx' = 0
    /\ embeds' = <<>>
    /\ orderedEmbeds' = <<>>
    /\ embIdx' = 0
    /\ result' = NullResult
    /\ sourceLog' = <<>>
    /\ embedLog' = <<>>
    /\ descriptor' = NoMedia
    /\ captionCalls' = <<>>
    /\ responses' = <<>>
    /\ tree' = Scalar
    /\ captions' = <<>>
    /\ UNCHANGED <<metaVars, resolveVars, fetchVars, apc, runAllOut,
                   phase, input, prev, host, ret>>
    /\ thrown' = NoError

----------------------------------------------------------------------------
(* FirstSpec: one first-success request after another, from the route to   *)
(* its response, over listings of up to MaxRouteSources sources.           *)

MaxRouteSources == 2

FirstInit ==
    /\ Init
    /\ Len(engineSources) <= MaxRouteSources

FirstNext ==
    \/ FirstMediaFails
    \/ StartSearch
    \/ SearchListSourcesReturns
    \/ SearchListSourcesThrows
    \/ SearchListEmbedsReturns
    \/ SearchListEmbedsThrows
    \/ MetasFailed
    \/ FilterSources
    \/ RunSourceScraper
    \/ RunEmbedScraper
    \/ FirstSearchFailed
    \/ FirstAfterSearch
    \/ FirstCaptionsFetched
    \/ FirstOver

FirstSpec == FirstInit /\ [][FirstNext]_vars

\* findFirstProvider got its listings and went through the source loop.
SearchReturned == pc \in {"done", "captions", "responded"} /\ embedMetas # <<>>

\* No runSourceScraper call and no runEmbedScraper call gave a stream; the
\* embed calls of a source that was passed over gave none.
NothingYielded ==
    /\ \A k \in DOMAIN sourceLog : ~sourceLog[k].yielded
    /\ \A k \in DOMAIN embedLog : ~embedLog[k].yielded

\* C15: when no compatible non-excluded source and none of their embeds
\* yields a stream (they throw or return nothing, or there is no such
\* source), findFirstProvider returns null and the request ends with 404
\* no_output.
C15_NoOutputWhenNothingYields ==
    (SearchReturned /\ NothingYielded) =>
        /\ result.isNull
        /\ CalledPositions = Eligible
        /\ pc # "captions"
        /\ pc = "responded" => responses = <<Failure(404, "no_output")>>

\* Two sources were run, one threw, none yielded, and the answer is 404.
C15_Witness ==
    /\ pc = "responded"
    /\ Len(sourceLog) >= 2
    /\ \E k \in DOMAIN sourceLog : sourceLog[k].threw
    /\ NothingYielded
    /\ responses = <<Failure(404, "no_output")>>

\* The media was resolved and getProviderMetas returned the listings: the
\* search is in its loops or past them.
ListingsObtained ==
    \/ pc \in {"sources", "embeds", "done", "captions"}
    \/ pc = "responded" /\ embedMetas # <<>>

\* C26: once the media is resolved and the listings are obtained, nothing a
\* scraper throws reaches the handler's catch block: the search does not
\* fail, and the response is 404 no_output or the success response with
\* the stream of the result, never the engine's not-found or a 500.
C26_ScraperFailureNeverSurfaced ==
    /\ ListingsObtained =>
          /\ thrown = NoError
          /\ pc = "responded" =>
                \/ responses = <<Failure(404, "no_output")>> /\ result.isNull
                \/ /\ responses = <<Success(tree)>>
                   /\ ~result.isNull
                   /\ tree.playlist = streamObject(result.stream).playlist
    /\ pc = "failed" => sourceLog = <<>> /\ embedLog = <<>>

\* The first source threw, a later candidate gave the stream, and the
\* answer is the success response.
C26_Witness ==
    /\ pc = "responded"
    /\ Len(sourceLog) >= 2
    /\ sourceLog[1].threw
    /\ ~result.isNull
    /\ responses = <<Success(tree)>>

----------------------------------------------------------------------------
(* RoutesSpec: the requests of both programs, one after another. app.js    *)
(* has no metadata cache, so its routes run while the caches are unset;    *)
(* server.js runs over listings of fewer than MaxRouteSources sources.     *)

\* No request of either program is in flight.
BetweenRequests == pc = "idle" /\ apc = "idle"

\* The process is one in which getProviderMetas has assigned nothing.
CachesUnset == SOURCE_METAS_CACHE = NullCache /\ EMBED_METAS_CACHE = NullCache

RoutesInit ==
    /\ Init
    /\ Len(engineSources) < MaxRouteSources

RoutesNext ==
    \/ BetweenRequests /\ CachesUnset /\ AggMovieRequest
          /\ UNCHANGED <<metaVars, searchVars, resolveVars, fetchVars>>
    \/ BetweenRequests /\ CachesUnset /\ AggShowRequest
          /\ UNCHANGED <<metaVars, searchVars, resolveVars, fetchVars>>
    \/ AggMediaResolved /\ UNCHANGED <<metaVars, searchVars, resolveVars, fetchVars>>
    \/ AggMediaFails /\ UNCHANGED <<metaVars, searchVars, resolveVars, fetchVars>>
    \/ AggRunAllReturns /\ UNCHANGED <<metaVars, searchVars, resolveVars, fetchVars>>
    \/ AggRunAllThrows /\ UNCHANGED <<metaVars, searchVars, resolveVars, fetchVars>>
    \/ AggCaptionsFetched /\ UNCHANGED <<metaVars, searchVars, resolveVars, fetchVars>>
    \/ AggOver /\ UNCHANGED <<metaVars, searchVars, resolveVars, fetchVars>>
    \/ BetweenRequests /\ FirstMediaFails
    \/ BetweenRequests /\ StartSearch
    \/ SearchListSourcesReturns
    \/ SearchListSourcesThrows
    \/ SearchListEmbedsReturns
    \/ SearchListEmbedsThrows
    \/ MetasFailed
    \/ FilterSources
    \/ RunSourceScraper
    \/ RunEmbedScraper
    \/ FirstSearchFailed
    \/ FirstAfterSearch
    \/ FirstCaptionsFetched
    \/ FirstOver

RoutesSpec == RoutesInit /\ [][RoutesNext]_vars

----------------------------------------------------------------------------
(* Properties of the routes of both programs (RoutesSpec)                  *)

\* The request in flight has been answered.
Answered == pc = "responded" \/ apc = "responded"

\* The tree as the engine gave it to the handler of the request in flight.
EngineTree == IF apc # "idle" THEN input ELSE streamObject(result.stream)

\* An answer other than the success response.
ErrorResponse(r) == r.status # 200

\* C23: in both modes, a request that ends with an error response (404
\* no_output, the engine's not-found, or a generic failure) has performed no
\* caption injection: no captions were fetched or injected and no tree was
\* modified; an injection is always followed by the success response that
\* carries the tree it produced.
C23_NoInjectionOnError ==
    /\ (Answered /\ \E k \in DOMAIN responses : ErrorResponse(responses[k])) =>
          /\ captions = <<>>
          /\ captionCalls = <<>>
          /\ tree = Scalar \/ tree = EngineTree
    /\ captions # <<>> =>
          /\ Answered
          /\ responses = <<Success(tree)>>

\* A request whose descriptor has an imdbId and whose engine call threw: it
\* is answered with the failure, and nothing was fetched or injected.
C23_Witness ==
    /\ apc = "responded"
    /\ TruthyString(descriptor.imdbId)
    /\ responses = <<Failure(500, "scrape failed")>>
    /\ captionCalls = <<>>
    /\ captions = <<>>

\* The request in flight was answered with an error response.
AnsweredWithError ==
    Answered /\ responses # <<>> /\ ErrorResponse(responses[1])

\* The failure is a not-found condition: the engine's NotFoundError was
\* caught, or nothing was thrown and the engine produced no output.
NotFoundCondition == thrown.isNotFound \/ thrown = NoError

\* 404 exactly for a not-found condition, 500 for every other failure, and
\* no_output as the message when nothing was thrown.
StatusMapped ==
    /\ responses[1].status = IF NotFoundCondition THEN 404 ELSE 500
    /\ thrown = NoError => responses[1].error = "no_output"
    /\ (thrown # NoError /\ Answered) => AnsweredWithError

\* C24 as stated: a request answers 404 exactly when the failure is a
\* not-found condition (the engine's NotFoundError, or no output); every
\* other failure (metadata incomplete, invalid parameter, episode not found,
\* transport failure) answers 500 carrying the error's message.
C24_ErrorMapping ==
    AnsweredWithError =>
        /\ StatusMapped
        /\ ~NotFoundCondition => responses[1].error = thrown.message

\* C24 as amended: the same, the 500 response carrying the error's message
\* when it has one and "internal" when the message is empty.
C24_ErrorMappingWithFallback ==
    AnsweredWithError =>
        /\ StatusMapped
        /\ ~NotFoundCondition =>
              responses[1].error =
                  IF thrown.message # "" THEN thrown.message ELSE "internal"

\* A first-success request whose listing call threw the engine's
\* NotFoundError, answered with 404.
C24_Witness ==
    /\ pc = "responded"
    /\ thrown.isNotFound
    /\ responses = <<Failure(404, "not found")>>

----------------------------------------------------------------------------
(* RoutesLiveSpec: RoutesSpec where every call a handler awaits (the media *)
(* database, the provider engine, the subtitle service) comes back, by     *)
(* returning or by throwing. Nothing is assumed about requests arriving.   *)

\* The steps by which an awaited call comes back to a handler.
AwaitedCallComesBack ==
    \/ AggMediaResolved /\ UNCHANGED <<metaVars, searchVars, resolveVars, fetchVars>>
    \/ AggMediaFails /\ UNCHANGED <<metaVars, searchVars, resolveVars, fetchVars>>
    \/ AggRunAllReturns /\ UNCHANGED <<metaVars, searchVars, resolveVars, fetchVars>>
    \/ AggRunAllThrows /\ UNCHANGED <<metaVars, searchVars, resolveVars, fetchVars>>
    \/ AggCaptionsFetched /\ UNCHANGED <<metaVars, searchVars, resolveVars, fetchVars>>
    \/ SearchListSourcesReturns
    \/ SearchListSourcesThrows
    \/ SearchListEmbedsReturns
    \/ SearchListEmbedsThrows
    \/ MetasFailed
    \/ FilterSources
    \/ RunSourceScraper
    \/ RunEmbedScraper
    \/ FirstSearchFailed
    \/ FirstAfterSearch
    \/ FirstCaptionsFetched

RoutesLiveSpec == RoutesSpec /\ WF_vars(AwaitedCallComesBack)

\* A request has been received and not yet answered.
InFlight ==
    \/ pc \notin {"idle", "responded"}
    \/ apc \notin {"idle", "responded"}

\* C29: if every awaited call returns or throws, every movie or show request
\* of either mode is answered, and answered once: no response is sent
\* before the handler is through, one has been sent when it is, and never a
\* second.
C29_ExactlyOneResponse ==
    /\ [](Len(responses) <= 1)
    /\ [](InFlight => responses = <<>>)
    /\ [](Answered => Len(responses) = 1)
    /\ InFlight ~> Answered

\* A first-success request answered after its search ran a source and
\* captions were fetched.
C29_Witness ==
    /\ pc = "responded"
    /\ sourceLog # <<>>
    /\ captions # <<>>
    /\ Len(responses) = 1

====
